---- MODULE Spec2Model ----
(***************************************************************************)
(* Model of the ingestion backbone of DiscordClipSaver:                    *)
(*   - the channel-scan handler JobProcessor.process_batch_scan with the   *)
(*     worker loop around it (worker/processor.py, worker/main.py),        *)
(*   - the ChannelScanStatus repository (shared/db/repositories),          *)
(*   - the Redis stream client (shared/redis/redis_client.py).             *)
(*                                                                         *)
(* One guild, one channel.  Message ids (snowflakes) are the integers      *)
(* 1..latest, larger = newer; 0 stands for a null cursor.                  *)
(***************************************************************************)
EXTENDS Integers, Sequences, FiniteSets, TLC

\* ------------------------------------------------------------------ bounds
\* Largest message id the channel ever holds.
MaxMsg == 3
\* Page size ("limit") carried by the scan jobs of the model.
PageLimit == 2
\* Number of scan jobs producers outside the worker may append.
MaxJobs == 2
\* Number of times one stream entry is delivered (first read plus reclaims).
MaxDeliveries == 2

VARIABLES
    latest,       \* platform: the channel holds the messages 1..latest
    scanEnabled,  \* guild.message_scan_enabled /\ channel.message_scan_enabled
    scan,         \* the channel's ChannelScanStatus row (status "none": no row)
    msgs,         \* ids of the stored Message rows (messages that carry a clip)
    pc,           \* position of the worker inside process_jobs / process_batch_scan
    job,          \* job_data of the stream entry being handled
    loc,          \* local variables of process_batch_scan
    batchStream,  \* continuation jobs waiting in jobs:guild:<g>:batch
    entry,        \* the handled stream entry: "none", "pending" (in the PEL), "acked"
    result,       \* how the last run of the handler ended
    pushed,       \* push_job calls made by the current delivery
    deliveries,   \* deliveries of the handled entry so far
    jobsLeft,     \* jobs the producers may still append
    purging,      \* a purge_channel job is between _stop_channel_scan and the deletes
    ghost,        \* history: the state at the first delivery, whether a worker died
    \* --- the Redis stream of one guild and job type, with its consumer group
    qstream,      \* ids of the entries in the stream
    nextId,       \* id XADD gives to the next entry
    group,        \* [exists, lastDelivered] of consumer group "worker_group"
    pel,          \* pending entries list: id -> [owner, idle]
    wk,           \* per worker: [alive, batch], batch = jobs read_jobs returned
    qhist,        \* history: ids delivered, processed, acknowledged; last event
    \* --- one message with one clip: its rows, its blobs, the jobs on it
    settings,     \* compute_settings_hash of the channel's current settings
    author,       \* Author row of the message's author: 0 none, else write stamp
    message,      \* Message row: 0 none, else write stamp (updated_at)
    clip,         \* Clip row [status, hash, expired] (status "none": no row)
    thumbs,       \* size_types of the clip's Thumbnail rows
    files,        \* size_types whose blob <clip>_<size>.webp is in storage
    failed,       \* the clip's FailedThumbnail rows [id, retry, delay, err]
    tw,           \* per worker: the job on the clip it runs and its locals
    del,          \* the message-deletion / purge job: position and locals
    tghost,       \* history: jobs started, attempts, consecutive failures
    \* --- the clip table under bulk_upsert_clips
    clipTable,    \* clip id -> [payload, created, updated] (payload 0: no row)
    up,           \* history: pairs to carry, table at the start, pairs applied
    \* --- concurrent writers of the channel's ChannelScanStatus row
    cw,           \* per worker: the repository call in progress and its instance
    cghost,       \* history: calls made, sums of the increments applied
    rec,          \* recover_all_stale_scans: position and the instance it found
    \* --- the life of one worker process
    life,         \* one worker process: main coroutine, running flag, background tasks
    \* --- validation of one batch scan job
    val,          \* the batch scan job being validated: rows, position, status
    \* --- purge of one channel
    pg,           \* the purge_channel job: position, the channel's rows and blob files
    \* --- the settings cache
    sc,           \* the settings cache, the clock, the settings rows and the call in progress
    \* --- resolution of settings
    rs,           \* one resolution of settings: the rows read and the result
    \* --- the regex filter
    rx,           \* one run of the message filter: the page, match_regex and what was stored
    \* --- upsert of channels
    ch,           \* one upsert of a channel: the stored row before and after, the snapshot
    \* --- errors on single messages
    pe,           \* one scan page or message job with faulty messages: position, what was stored
    \* --- continuation jobs
    cn,           \* the continuation step of one batch scan job
    \* --- thumbnail-retry jobs
    rt,           \* one thumbnail-retry job over the FailedThumbnail table
    \* --- db_retry
    dbr,          \* one call of an operation wrapped by db_retry
    \* --- settings cache, concurrent callers
    cr,           \* concurrent get_channel_settings calls and invalidations on one key
    \* --- purge and scan jobs
    pq,           \* whether a purge of the channel has completed
    \* --- continuation chains
    chn           \* one scan of a channel as a chain of batch scan jobs

scanVars == <<latest, scanEnabled, scan, msgs, pc, job, loc, batchStream, entry,
              result, pushed, deliveries, jobsLeft, purging, ghost>>

queueVars == <<qstream, nextId, group, pel, wk, qhist>>

thumbVars == <<settings, author, message, clip, thumbs, files, failed, tw, del,
               tghost>>

upsertVars == <<clipTable, up>>

statusVars == <<cw, cghost, rec>>

lifeVars == <<life>>

valVars == <<val>>

purgeVars == <<pg>>

cacheVars == <<sc>>

resolveVars == <<rs>>

regexVars == <<rx>>

channelVars == <<ch>>

faultVars == <<pe>>

contVars == <<cn>>

retryVars == <<rt>>

dbRetryVars == <<dbr>>

raceVars == <<cr>>

purgeRaceVars == <<pq>>

chainVars == <<chn>>

storeVars == <<thumbVars, upsertVars, statusVars, lifeVars, valVars, purgeVars, cacheVars, resolveVars, regexVars, channelVars, faultVars, contVars, retryVars, dbRetryVars, raceVars, purgeRaceVars, chainVars>>

vars == <<scanVars, queueVars, storeVars>>

\* ------------------------------------------------------------- helpers
Min(a, b) == IF a < b THEN a ELSE b
Max(a, b) == IF a > b THEN a ELSE b

\* The messages that carry a video attachment (platform content).
HasClip(m) == m % 2 = 1

SeqToSet(s) == {s[i] : i \in 1..Len(s)}

FilterSeq(s, keep) == SelectSeq(s, LAMBDA m : m \in keep)

\* ChannelScanStatus as created by get_or_create_scan_status.
NewScanStatus ==
    [status |-> "queued", fwd |-> 0, bwd |-> 0, total |-> 0, count |-> 0,
     err |-> "none"]

NoScanStatus ==
    [status |-> "none", fwd |-> 0, bwd |-> 0, total |-> 0, count |-> 0,
     err |-> "none"]

get_or_create_scan_status(s) == IF s.status = "none" THEN NewScanStatus ELSE s

\* update_scan_status: "keep" / 0 stand for an argument that is not given.
update_scan_status(s, status, fwd, bwd, err) ==
    LET r == get_or_create_scan_status(s) IN
    [r EXCEPT !.status = IF status # "keep" THEN status ELSE @,
              !.fwd    = IF fwd # 0 THEN fwd ELSE @,
              !.bwd    = IF bwd # 0 THEN bwd ELSE @,
              !.err    = IF err # "keep" THEN err ELSE @]

increment_scan_counts(s, messages_scanned, clips_found) ==
    LET r == get_or_create_scan_status(s) IN
    [r EXCEPT !.total = IF messages_scanned > 0 THEN @ + messages_scanned ELSE @,
              !.count = IF clips_found > 0 THEN @ + clips_found ELSE @]

\* Variant: the page starts at the cursor message itself.
HistoryFromCursor(lat, direction, limit, before, after) ==
    IF direction = "backward"
    THEN LET top == IF before = 0 THEN lat ELSE Min(before, lat)
             n   == Min(limit, top)
         IN  [i \in 1..n |-> top - i + 1]
    ELSE LET lo == Max(after, 1)
             n  == Min(limit, Max(lat - lo + 1, 0))
         IN  [i \in 1..n |-> lo + i - 1]

\* channel.history(limit, before/after, oldest_first) on the messages 1..lat.
get_message_history(lat, direction, limit, before, after) ==
    IF direction = "backward"
    THEN LET top == IF before = 0 THEN lat ELSE Min(before - 1, lat)
             n   == Min(limit, top)
         IN  [i \in 1..n |-> top - i + 1]
    ELSE LET lo == after + 1
             n  == Min(limit, Max(lat - lo + 1, 0))
         IN  [i \in 1..n |-> lo + i - 1]

NoJob ==
    [type |-> "none", direction |-> "backward", limit |-> 0, before |-> 0,
     after |-> 0, auto_continue |-> FALSE, rescan |-> "stop"]

BatchScanJob(direction, limit, before, after, auto_continue, rescan) ==
    [type |-> "batch", direction |-> direction, limit |-> limit,
     before |-> before, after |-> after, auto_continue |-> auto_continue,
     rescan |-> rescan]

NoLocals ==
    [snapF |-> 0, snapB |-> 0, page |-> <<>>, toProcess |-> <<>>,
     stopped |-> FALSE, clips |-> 0, contNeeded |-> FALSE]

NoGhost ==
    [scan0 |-> NoScanStatus, msgs0 |-> {}, stream0 |-> <<>>, crashed |-> FALSE]

Directions == {"backward", "forward"}
RescanModes == {"stop", "continue", "update"}

\* Jobs appended by producers outside the worker: a manual scan without a
\* cursor (interface), and the bot's gap detection (forward from the
\* forward cursor).
ProducerJobs ==
    {BatchScanJob(d, PageLimit, 0, 0, a, r) :
        d \in Directions, a \in BOOLEAN, r \in RescanModes}
    \cup
    (IF scan.status # "none" /\ scan.fwd # 0 /\ scan.fwd # latest
     THEN {BatchScanJob("forward", PageLimit, 0, scan.fwd, TRUE, "stop")}
     ELSE {})


\* ------------------------------------------- process_batch_scan, pure parts
\* Ids of the page that already have a Message row.
ExistingIds(page, stored) == SeqToSet(page) \cap stored

\* Variant: every policy hands the whole page to the batch processor.
MessagesToProcessWholePage(page, stored, rescan) == page

\* The rescan policy: the messages handed to the batch processor.
MessagesToProcess(page, stored, rescan) ==
    IF ExistingIds(page, stored) = {} THEN page
    ELSE IF rescan = "update" THEN page
    ELSE FilterSeq(page, SeqToSet(page) \ stored)

StoppedOnDuplicate(page, stored, rescan) ==
    /\ ExistingIds(page, stored) # {}
    /\ rescan \notin {"continue", "update"}
    /\ Len(MessagesToProcess(page, stored, rescan)) < Len(page)

\* BatchMessageProcessor.process_messages_batch: Message (and Clip) rows are
\* upserted for the messages that carry a clip.
ClipMessages(toProcess) == {m \in SeqToSet(toProcess) : HasClip(m)}

OldestOf(direction, page) ==
    IF direction = "backward" THEN page[Len(page)] ELSE page[1]

NewestOf(direction, page) ==
    IF direction = "backward" THEN page[1] ELSE page[Len(page)]

\* Variant: every job writes both cursors.
CursorUpdateBoth(s, snapF, snapB, direction, page) ==
    IF page = <<>> THEN s
    ELSE update_scan_status(s, "keep", NewestOf(direction, page),
                            OldestOf(direction, page), "keep")

\* "Track message IDs": the cursor update of one job; snapF/snapB are the
\* cursors of the scan_status object read when the job started.
CursorUpdate(s, snapF, snapB, direction, page) ==
    IF page = <<>> THEN s
    ELSE IF snapF = 0 /\ snapB = 0
         THEN update_scan_status(s, "keep", NewestOf(direction, page),
                                 OldestOf(direction, page), "keep")
         ELSE IF direction = "backward"
              THEN update_scan_status(s, "keep", 0, OldestOf(direction, page), "keep")
              ELSE update_scan_status(s, "keep", NewestOf(direction, page), 0, "keep")

\* Variant: a full page continues even after a stop on a duplicate.
ContinuationIgnoringStop(page, limit, stopped) ==
    page # <<>> /\ Len(page) >= limit

ContinuationNeeded(page, limit, stopped) ==
    page # <<>> /\ Len(page) >= limit /\ ~stopped

\* Variant: the continuation carries the cursors of the job that produced it.
ContinuationKeepsCursor(j, page) ==
    BatchScanJob(j.direction, j.limit, j.before, j.after, TRUE, j.rescan)

ContinuationJob(j, page) ==
    BatchScanJob(j.direction, j.limit,
                 IF j.direction = "backward" THEN OldestOf(j.direction, page) ELSE j.before,
                 IF j.direction = "forward" THEN NewestOf(j.direction, page) ELSE j.after,
                 TRUE, j.rescan)

\* ------------------------------------------------------------ the worker
InJob == {"start", "validate", "fetch_channel", "fetch_history", "process",
          "count", "cursor", "continue", "returned", "raised"}

\* A producer (interface, bot) appends a scan job to the batch stream.
PushProducerJob(j) ==
    /\ jobsLeft > 0
    /\ jobsLeft' = jobsLeft - 1
    /\ batchStream' = Append(batchStream, j)
    /\ UNCHANGED <<latest, scanEnabled, scan, msgs, pc, job, loc, entry,
                   result, pushed, deliveries, purging, ghost, queueVars, storeVars>>

\* Worker.process_jobs: read_jobs returns the next undelivered entry
\* (track: record the state the job starts from in the history variable).
ReadJob(track) ==
    /\ pc \in {"idle", "pending", "crashed"}
    /\ batchStream # <<>>
    /\ job' = Head(batchStream)
    /\ batchStream' = Tail(batchStream)
    /\ pc' = "start"
    /\ loc' = NoLocals
    /\ entry' = "pending"
    /\ result' = "none"
    /\ pushed' = 0
    /\ deliveries' = 1
    /\ ghost' = IF track
                 THEN [scan0 |-> scan, msgs0 |-> msgs, stream0 |-> batchStream',
                       crashed |-> FALSE]
                 ELSE ghost
    /\ UNCHANGED <<latest, scanEnabled, scan, msgs, jobsLeft, purging, queueVars, storeVars>>

\* scan_status = await get_or_create_scan_status(guild_id, channel_id)
BatchGetOrCreate ==
    /\ pc = "start"
    /\ scan' = get_or_create_scan_status(scan)
    /\ loc' = [loc EXCEPT !.snapF = scan'.fwd, !.snapB = scan'.bwd]
    /\ pc' = "validate"
    /\ UNCHANGED <<latest, scanEnabled, msgs, job, batchStream, entry, result,
                   pushed, deliveries, jobsLeft, purging, ghost, queueVars, storeVars>>

\* validate_scan_enabled, then CANCELLED and return, or RUNNING.
BatchValidate ==
    /\ pc = "validate"
    /\ IF scanEnabled
       THEN /\ scan' = update_scan_status(scan, "running", 0, 0, "none")
            /\ pc' = "fetch_channel"
            /\ result' = result
       ELSE /\ scan' = update_scan_status(scan, "cancelled", 0, 0, "validation")
            /\ pc' = "returned"
            /\ result' = "validation"
    /\ UNCHANGED <<latest, scanEnabled, msgs, job, loc, batchStream, entry,
                   pushed, deliveries, jobsLeft, purging, ghost, queueVars, storeVars>>

\* The platform errors process_batch_scan catches; each sets FAILED and returns.
PlatformErrors == {"forbidden", "notfound", "http", "nohistory"}

\* Variant: the platform error is re-raised to the worker loop.
PlatformFailureRaised(outcome) ==
    /\ scan' = update_scan_status(scan, "failed", 0, 0, outcome)
    /\ pc' = "raised"
    /\ result' = "platform"

PlatformFailure(outcome) ==
    /\ scan' = update_scan_status(scan, "failed", 0, 0, outcome)
    /\ pc' = "returned"
    /\ result' = "platform"

\* discord_channel = await self.bot.fetch_channel(...); hasattr(.., 'history')
BatchFetchChannel(outcome) ==
    /\ pc = "fetch_channel"
    /\ IF outcome = "ok"
       THEN pc' = "fetch_history" /\ UNCHANGED <<scan, result>>
       ELSE PlatformFailure(outcome)
    /\ UNCHANGED <<latest, scanEnabled, msgs, job, loc, batchStream, entry,
                   pushed, deliveries, jobsLeft, purging, ghost, queueVars, storeVars>>

\* messages = await get_message_history(...)
BatchFetchHistory(outcome) ==
    /\ pc = "fetch_history"
    /\ IF outcome = "ok"
       THEN /\ loc' = [loc EXCEPT !.page =
                          get_message_history(latest, job.direction, job.limit,
                                              job.before, job.after)]
            /\ pc' = "process"
            /\ UNCHANGED <<scan, result>>
       ELSE PlatformFailure(outcome) /\ loc' = loc
    /\ UNCHANGED <<latest, scanEnabled, msgs, job, batchStream, entry,
                   pushed, deliveries, jobsLeft, purging, ghost, queueVars, storeVars>>

\* The rescan policy and process_messages_batch (bulk upserts).
BatchProcess ==
    /\ pc = "process"
    /\ LET tp == MessagesToProcess(loc.page, msgs, job.rescan) IN
       /\ loc' = [loc EXCEPT !.toProcess = tp,
                             !.stopped = StoppedOnDuplicate(loc.page, msgs, job.rescan),
                             !.clips = Cardinality(ClipMessages(tp))]
       /\ msgs' = msgs \cup ClipMessages(tp)
    /\ pc' = "count"
    /\ UNCHANGED <<latest, scanEnabled, scan, job, batchStream, entry, result,
                   pushed, deliveries, jobsLeft, purging, ghost, queueVars, storeVars>>

\* await increment_scan_counts(...)
BatchCount ==
    /\ pc = "count"
    /\ scan' = increment_scan_counts(scan, Len(loc.toProcess), loc.clips)
    /\ pc' = "cursor"
    /\ UNCHANGED <<latest, scanEnabled, msgs, job, loc, batchStream, entry,
                   result, pushed, deliveries, jobsLeft, purging, ghost, queueVars, storeVars>>

\* "Track message IDs for continuation"
BatchCursor ==
    /\ pc = "cursor"
    /\ scan' = CursorUpdate(scan, loc.snapF, loc.snapB, job.direction, loc.page)
    /\ loc' = [loc EXCEPT !.contNeeded =
                  ContinuationNeeded(loc.page, job.limit, loc.stopped)]
    /\ pc' = "continue"
    /\ UNCHANGED <<latest, scanEnabled, msgs, job, batchStream, entry, result,
                   pushed, deliveries, jobsLeft, purging, ghost, queueVars, storeVars>>

\* "Queue continuation job if needed and allowed", else SUCCEEDED.
BatchContinue ==
    /\ pc = "continue"
    /\ IF loc.contNeeded /\ job.auto_continue
       THEN /\ batchStream' = Append(batchStream, ContinuationJob(job, loc.page))
            /\ pushed' = pushed + 1
            /\ scan' = update_scan_status(scan, "running", 0, 0, "none")
            /\ result' = "continued"
       ELSE /\ scan' = update_scan_status(scan, "succeeded", 0, 0, "none")
            /\ result' = "succeeded"
            /\ UNCHANGED <<batchStream, pushed>>
    /\ pc' = "returned"
    /\ UNCHANGED <<latest, scanEnabled, msgs, job, loc, entry, deliveries,
                   jobsLeft, purging, ghost, queueVars, storeVars>>

\* Any other exception inside the try block: FAILED, then re-raised.
RaisePoints == {"validate", "fetch_channel", "fetch_history", "process",
                "count", "cursor", "continue"}

BatchRaise ==
    /\ pc \in RaisePoints
    /\ scan' = update_scan_status(scan, "failed", 0, 0, "exception")
    /\ pc' = "raised"
    /\ result' = "raised"
    /\ UNCHANGED <<latest, scanEnabled, msgs, job, loc, batchStream, entry,
                   pushed, deliveries, jobsLeft, purging, ghost, queueVars, storeVars>>

\* process_job returned: acknowledge_job (xack, xdel).
WorkerAck ==
    /\ pc = "returned"
    /\ entry' = "acked"
    /\ pc' = "idle"
    /\ loc' = NoLocals
    /\ UNCHANGED <<latest, scanEnabled, scan, msgs, job, batchStream,
                   result, pushed, deliveries, jobsLeft, purging, ghost, queueVars, storeVars>>

\* process_job raised: a batch job's scan becomes CANCELLED, no acknowledge.
WorkerOnError ==
    /\ pc = "raised"
    /\ scan' = IF job.type = "batch"
               THEN update_scan_status(scan, "cancelled", 0, 0, "retry")
               ELSE scan
    /\ pc' = "pending"
    /\ UNCHANGED <<latest, scanEnabled, msgs, job, loc, batchStream, entry,
                   result, pushed, deliveries, jobsLeft, purging, ghost, queueVars, storeVars>>

\* The worker process dies; the entry stays in the pending list.
WorkerCrash ==
    /\ pc \in InJob
    /\ deliveries < MaxDeliveries
    /\ pc' = "crashed"
    /\ ghost' = [ghost EXCEPT !.crashed = TRUE]
    /\ UNCHANGED <<latest, scanEnabled, scan, msgs, job, loc, batchStream,
                   entry, result, pushed, deliveries, jobsLeft, purging, queueVars, storeVars>>

\* _claim_pending_jobs of another worker: the entry is delivered again.
ClaimPending ==
    /\ pc \in {"pending", "crashed"}
    /\ entry = "pending"
    /\ deliveries < MaxDeliveries
    /\ deliveries' = deliveries + 1
    /\ pc' = "start"
    /\ loc' = NoLocals
    /\ result' = "none"
    /\ pushed' = 0
    /\ UNCHANGED <<latest, scanEnabled, scan, msgs, job, batchStream, entry,
                   jobsLeft, purging, ghost, queueVars, storeVars>>

\* -------------------------------------------------------- other actors
\* A user posts a message in the channel.
NewMessage ==
    /\ latest < MaxMsg
    /\ latest' = latest + 1
    /\ UNCHANGED <<scanEnabled, scan, msgs, pc, job, loc, batchStream, entry,
                   result, pushed, deliveries, jobsLeft, purging, ghost, queueVars, storeVars>>

\* An operator switches scanning of the channel on or off.
ToggleScan ==
    /\ scanEnabled' = ~scanEnabled
    /\ UNCHANGED <<latest, scan, msgs, pc, job, loc, batchStream, entry,
                   result, pushed, deliveries, jobsLeft, purging, ghost, queueVars, storeVars>>

\* process_message_scan for message_ids = [m], run by another worker;
\* processed says whether process_message returned for m.
ProcessMessageScan(m, processed) ==
    /\ scanEnabled
    /\ m \in 1..latest
    /\ HasClip(m)
    /\ processed
    /\ msgs' = msgs \cup {m}
    /\ LET s == get_or_create_scan_status(scan) IN
       scan' = IF s.fwd = 0 \/ m > s.fwd
               THEN update_scan_status(scan, "keep", m, 0, "keep")
               ELSE s
    /\ UNCHANGED <<latest, scanEnabled, pc, job, loc, batchStream, entry,
                   result, pushed, deliveries, jobsLeft, purging, ghost, queueVars, storeVars>>

\* recover_all_stale_scans: a scan idle for T_stale in RUNNING or QUEUED.
RecoverStaleScan ==
    /\ scan.status \in {"running", "queued"}
    /\ scan' = [scan EXCEPT !.status = "cancelled", !.err = "stale"]
    /\ UNCHANGED <<latest, scanEnabled, msgs, pc, job, loc, batchStream, entry,
                   result, pushed, deliveries, jobsLeft, purging, ghost, queueVars, storeVars>>

\* process_purge_channel, first half: _stop_channel_scan.
PurgeStopScan ==
    /\ ~purging
    /\ purging' = TRUE
    /\ scan' = IF get_or_create_scan_status(scan).status = "running"
               THEN update_scan_status(scan, "cancelled", 0, 0, "purge")
               ELSE get_or_create_scan_status(scan)
    /\ UNCHANGED <<latest, scanEnabled, msgs, pc, job, loc, batchStream, entry,
                   result, pushed, deliveries, jobsLeft, ghost, queueVars, storeVars>>

\* process_purge_channel, second half: PurgeHandler.purge_channel.
PurgeChannel ==
    /\ purging
    /\ purging' = FALSE
    /\ msgs' = {}
    /\ scan' = NoScanStatus
    /\ UNCHANGED <<latest, scanEnabled, pc, job, loc, batchStream, entry,
                   result, pushed, deliveries, jobsLeft, ghost, queueVars, storeVars>>

\* The database and the stream before the first job: no ChannelScanStatus
\* row, no Message rows; the channel may already hold messages.
ScanInit(jobs) ==
    /\ latest \in 0..MaxMsg
    /\ scanEnabled \in BOOLEAN
    /\ scan = NoScanStatus
    /\ msgs = {}
    /\ pc = "idle"
    /\ job = NoJob
    /\ loc = NoLocals
    /\ batchStream = <<>>
    /\ entry = "none"
    /\ result = "none"
    /\ pushed = 0
    /\ deliveries = 0
    /\ jobsLeft = jobs
    /\ purging = FALSE
    /\ ghost = NoGhost

\* ------------------------------------------------------ the Redis stream
\* Entries ever appended to the stream.
MaxEntries == 3
\* Worker processes (consumers of "worker_group").
NumWorkers == 2
\* REDIS_STREAM_MAXLEN (default 10000), scaled down.
STREAM_MAXLEN == 2
\* count=10 of xpending_range in _claim_pending_jobs, scaled down.
XPENDING_COUNT == 2
\* WORKER_JOB_BATCH_SIZE (default 10), scaled down.
JobBatchSize == 2

Ids == 1..MaxEntries
Workers == 1..NumWorkers

RECURSIVE SortedSeq(_)
SortedSeq(S) ==
    IF S = {} THEN <<>>
    ELSE LET m == CHOOSE x \in S : \A y \in S : x <= y
         IN  <<m>> \o SortedSeq(S \ {m})

\* The n smallest ids of S.
FirstN(S, n) == {x \in S : Cardinality({y \in S : y < x}) < n}

NoEvent == [w |-> 0, e |-> 0, outcome |-> "none", flip |-> FALSE]

\* SCAN finds the stream key once an XADD or an XGROUP CREATE MKSTREAM made it.
StreamExists == nextId > 1 \/ group.exists

\* _ensure_consumer_group: XGROUP CREATE id='0' MKSTREAM, BUSYGROUP ignored.
\* A client without consumer group (a producer) does nothing.
_ensure_consumer_group(g, is_consumer) ==
    IF is_consumer /\ ~g.exists THEN [exists |-> TRUE, lastDelivered |-> 0] ELSE g

\* XADD ... MAXLEN ~ STREAM_MAXLEN: the entry is appended; the approximate trim
\* may evict any number of the oldest entries that leaves STREAM_MAXLEN or more.
XAddResults(stream, id) ==
    LET added == stream \cup {id}
        over  == Max(Cardinality(added) - STREAM_MAXLEN, 0)
    IN  {added \ FirstN(added, k) : k \in 0..over}

\* push_job of a client; is_consumer tells whether it has a consumer group.
push_job(is_consumer, newStream) ==
    /\ nextId <= MaxEntries
    /\ group' = _ensure_consumer_group(group, is_consumer)
    /\ newStream \in XAddResults(qstream, nextId)
    /\ qstream' = newStream
    /\ nextId' = nextId + 1

\* A producer without consumer group (the bot, the interface) appends a job.
ProducerPush(newStream) ==
    /\ push_job(FALSE, newStream)
    /\ UNCHANGED <<pel, wk, qhist, scanVars, storeVars>>

\* _claim_pending_jobs: the first XPENDING_COUNT pending entries are looked
\* at; those idle for min_idle_time are claimed with XCLAIM.  An entry whose
\* stream entry is gone is dropped from the pending list by XCLAIM.
InspectedPending == FirstN(DOMAIN pel, XPENDING_COUNT)

ClaimablePending == {e \in InspectedPending : pel[e].idle}

\* XREADGROUP '>' count: the next undelivered entries.
NewEntries(count) ==
    FirstN({e \in qstream : e > _ensure_consumer_group(group, TRUE).lastDelivered},
           count)

\* Worker.process_jobs: jobs = await self.redis.read_jobs(count, block)
ReadJobs(w) ==
    /\ wk[w].alive
    /\ wk[w].batch = <<>>
    /\ StreamExists
    /\ LET g1      == _ensure_consumer_group(group, TRUE)
           claimed == ClaimablePending \cap qstream
           gone    == ClaimablePending \ qstream
           fresh   == NewEntries(JobBatchSize)
           got     == IF claimed # {} THEN claimed ELSE fresh
       IN
       /\ pel' = [e \in ((DOMAIN pel) \ gone) \cup got |->
                     IF e \in got THEN [owner |-> w, idle |-> FALSE] ELSE pel[e]]
       /\ group' = IF claimed = {} /\ fresh # {}
                   THEN [g1 EXCEPT !.lastDelivered =
                            CHOOSE x \in fresh : \A y \in fresh : y <= x]
                   ELSE g1
       /\ wk' = [wk EXCEPT ![w].batch = SortedSeq(got)]
       /\ qhist' = [qhist EXCEPT !.delivered = @ \cup got]
    /\ UNCHANGED <<qstream, nextId, scanVars, storeVars>>

\* Variant: the entry is acknowledged whatever process_job did.
AcknowledgeAlways(outcome) == TRUE

\* The try/except around process_job in Worker.process_jobs: the entry is
\* acknowledged when process_job returned.
ShouldAcknowledge(outcome) == outcome = "ok"

\* acknowledge_job: XACK, then XDEL.
acknowledge_job(p, stream, e) ==
    [pel |-> [x \in (DOMAIN p) \ {e} |-> p[x]], stream |-> stream \ {e}]

\* One iteration of "for job in jobs": process_job on the next job of the
\* batch (it returns or raises, and may have pushed a continuation job
\* before), then the acknowledgement or the error handling.
ProcessJob(w, outcome, pushes, newStream) ==
    /\ wk[w].alive
    /\ wk[w].batch # <<>>
    /\ LET e   == Head(wk[w].batch)
           ack == ShouldAcknowledge(outcome)
           st  == IF pushes THEN newStream ELSE qstream
           res == acknowledge_job(pel, st, e)
       IN
       /\ IF pushes
          THEN /\ nextId <= MaxEntries
               /\ newStream \in XAddResults(qstream, nextId)
               /\ nextId' = nextId + 1
               /\ group' = _ensure_consumer_group(group, TRUE)
          ELSE /\ newStream = qstream
               /\ UNCHANGED <<nextId, group>>
       /\ pel' = IF ack THEN res.pel ELSE pel
       /\ qstream' = IF ack THEN res.stream ELSE st
       /\ wk' = [wk EXCEPT ![w].batch = Tail(@)]
       /\ qhist' = [qhist EXCEPT
                       !.okDone = IF outcome = "ok" THEN @ \cup {e} ELSE @,
                       !.acked  = IF ack THEN @ \cup {e} ELSE @,
                       !.last   = [w |-> w, e |-> e, outcome |-> outcome,
                                   flip |-> ~@.flip]]
    /\ UNCHANGED <<scanVars, storeVars>>

\* min_idle_time (60 s) passes: every pending entry is now idle long enough.
IdleTimePasses ==
    /\ \E e \in DOMAIN pel : ~pel[e].idle
    /\ pel' = [e \in DOMAIN pel |-> [pel[e] EXCEPT !.idle = TRUE]]
    /\ UNCHANGED <<qstream, nextId, group, wk, qhist, scanVars, storeVars>>

\* A worker process dies; the jobs it had read stay pending.
QueueWorkerCrash(w) ==
    /\ wk[w].alive
    /\ \E v \in Workers \ {w} : wk[v].alive
    /\ wk' = [wk EXCEPT ![w] = [alive |-> FALSE, batch |-> <<>>]]
    /\ UNCHANGED <<qstream, nextId, group, pel, qhist, scanVars, storeVars>>

QueueVarsInit ==
    /\ qstream = {}
    /\ nextId = 1
    /\ group = [exists |-> FALSE, lastDelivered |-> 0]
    /\ pel = [e \in {} |-> [owner |-> 0, idle |-> FALSE]]
    /\ wk = [w \in Workers |-> [alive |-> TRUE, batch |-> <<>>]]
    /\ qhist = [delivered |-> {}, okDone |-> {}, acked |-> {}, last |-> NoEvent]

\* ------------------------------------------- thumbnails of one clip
\* Thumbnail job starts (batch scans, retry jobs, deletions) per behaviour.
MaxThumbJobs == 3
\* Workers that run jobs on the clip at the same time.
ThumbWorkers == 1..NumWorkers

SizeTypes == {"small", "large"}
NoClip == [status |-> "none", hash |-> 0, expired |-> FALSE]
\* The two values compute_settings_hash takes here.
SettingsHashes == {1, 2}

backoff_minutes == <<5, 15, 60, 240, 720, 1440>>
\* _record_failure: backoff_minutes[min(retry_count - 1, len - 1)], 0-based.
BackoffDelay(retry_count) ==
    backoff_minutes[Min(retry_count - 1, Len(backoff_minutes) - 1) + 1]

\* Steps of generate_for_clip that raise; a failing _probe_video does not.
RaisingSteps == {"download", "extract", "encode", "store_small", "store_large"}
GenerateOutcomes == {"ok", "probe"} \cup RaisingSteps

NoRow == [id |-> 0, retry |-> 0]
IdleThumbWorker ==
    [kind |-> "idle", pc |-> "idle", update |-> FALSE, hash |-> 0,
     authorKnown |-> FALSE, snap |-> NoClip, inst |-> NoClip, step |-> "none",
     err |-> "none", existing |-> NoRow, row |-> 0]
NoDeletion == [pc |-> "idle", listed |-> {}]
NoThumbGhost ==
    [jobs |-> 0, rowsCreated |-> 0, changes |-> 0, fails |-> 0,
     lastErr |-> "none", lastStep |-> "none", lastResult |-> "none",
     lastKind |-> "none", lastAdd |-> "none"]

\* Model.save() of a fetched instance: UPDATE ... WHERE id = pk, every field.
SaveClip(row, inst) == IF row.status = "none" THEN row ELSE inst

\* BatchContext.add_clip decides from the existing_clips snapshot: the payload
\* it puts in clips_to_upsert ("none": nothing) and whether the clip is
\* appended to clips_needing_thumbnails.
AddClipAlwaysUpserts(snap, hash) ==
    [payload |-> [status |-> "pending", hash |-> hash, expired |-> FALSE],
     needs |-> TRUE]

add_clip(snap, hash) ==
    IF snap.status = "completed" /\ snap.hash = hash
    THEN [payload |-> IF snap.expired
                      THEN [status |-> "completed", hash |-> hash,
                            expired |-> FALSE]
                      ELSE NoClip,
          needs |-> FALSE]
    ELSE [payload |-> [status |-> "pending", hash |-> hash, expired |-> FALSE],
          needs |-> \/ snap.status = "none"
                    \/ snap.status \in {"failed", "pending"}
                    \/ snap.hash # hash]

\* process_messages_batch up to load_existing_clips; the scan handler hands
\* the message over when it is not stored yet or the rescan mode is update.
BatchLoad(w, upd) ==
    /\ tw[w].kind = "idle"
    /\ tghost.jobs < MaxThumbJobs
    /\ message = 0 \/ upd
    /\ tw' = [tw EXCEPT ![w] = [IdleThumbWorker EXCEPT
                 !.kind = "batch", !.pc = "upsert", !.update = upd,
                 !.hash = settings, !.authorKnown = (author # 0),
                 !.snap = clip]]
    /\ tghost' = [tghost EXCEPT !.jobs = @ + 1]
    /\ UNCHANGED <<settings, author, message, clip, thumbs, files, failed, del,
                   scanVars, queueVars, upsertVars, statusVars,
                   lifeVars,
                   valVars,
                   purgeVars,
                   cacheVars,
                   resolveVars,
                   regexVars,
                   channelVars,
                   faultVars,
                   contVars,
                   retryVars,
                   dbRetryVars,
                   raceVars,
                   purgeRaceVars,
                   chainVars>>

\* _collect_message_data and _bulk_upsert_data: authors, messages, clips.
BatchUpsert(w) ==
    /\ tw[w].kind = "batch" /\ tw[w].pc = "upsert"
    /\ LET r == add_clip(tw[w].snap, tw[w].hash)
       IN /\ author' = IF tw[w].update \/ ~tw[w].authorKnown
                       THEN author + 1 ELSE author
          /\ message' = message + 1
          /\ clip' = IF r.payload.status = "none" THEN clip ELSE r.payload
          /\ tw' = [tw EXCEPT ![w] = IF r.needs THEN [@ EXCEPT !.pc = "fetch"]
                                     ELSE IdleThumbWorker]
          /\ tghost' = [tghost EXCEPT !.lastAdd =
                           IF r.payload.status = "none" THEN "skipped"
                           ELSE r.payload.status]
    /\ UNCHANGED <<settings, thumbs, files, failed, del, scanVars, queueVars, upsertVars, statusVars,
                   lifeVars,
                   valVars,
                   purgeVars,
                   cacheVars,
                   resolveVars,
                   regexVars,
                   channelVars,
                   faultVars,
                   contVars,
                   retryVars,
                   dbRetryVars,
                   raceVars,
                   purgeRaceVars,
                   chainVars>>

\* _generate_thumbnails: Clip.filter(id__in=...) and the loop over its rows.
BatchFetchClip(w) ==
    /\ tw[w].kind = "batch" /\ tw[w].pc = "fetch"
    /\ tw' = [tw EXCEPT ![w] = IF clip.status = "none" THEN IdleThumbWorker
                               ELSE [@ EXCEPT !.pc = "start", !.inst = clip]]
    /\ UNCHANGED <<settings, author, message, clip, thumbs, files, failed, del,
                   tghost, scanVars, queueVars, upsertVars, statusVars,
                   lifeVars,
                   valVars,
                   purgeVars,
                   cacheVars,
                   resolveVars,
                   regexVars,
                   channelVars,
                   faultVars,
                   contVars,
                   retryVars,
                   dbRetryVars,
                   raceVars,
                   purgeRaceVars,
                   chainVars>>

\* retry_failed_thumbnails: one due FailedThumbnail row with its clip.
RetryQuery(w) ==
    /\ tw[w].kind = "idle"
    /\ tghost.jobs < MaxThumbJobs
    /\ \E f \in failed :
          tw' = [tw EXCEPT ![w] = [IdleThumbWorker EXCEPT
                    !.kind = "retry", !.pc = "start", !.row = f.id,
                    !.inst = clip]]
    /\ tghost' = [tghost EXCEPT !.jobs = @ + 1]
    /\ UNCHANGED <<settings, author, message, clip, thumbs, files, failed, del,
                   scanVars, queueVars, upsertVars, statusVars,
                   lifeVars,
                   valVars,
                   purgeVars,
                   cacheVars,
                   resolveVars,
                   regexVars,
                   channelVars,
                   faultVars,
                   contVars,
                   retryVars,
                   dbRetryVars,
                   raceVars,
                   purgeRaceVars,
                   chainVars>>

\* What the caller of process_clip does with a True result.
AfterSuccess(w) ==
    IF tw[w].kind = "retry" THEN [tw[w] EXCEPT !.pc = "delete"]
    ELSE IdleThumbWorker

\* process_clip: the already-generated check, then status "processing".
ClipStart(w) ==
    /\ tw[w].pc = "start"
    /\ IF files = SizeTypes /\ tw[w].inst.status = "completed"
       THEN /\ tw' = [tw EXCEPT ![w] = AfterSuccess(w)]
            /\ clip' = clip
       ELSE LET i == [tw[w].inst EXCEPT !.status = "processing"]
            IN /\ clip' = SaveClip(clip, i)
               /\ tw' = [tw EXCEPT ![w] = [@ EXCEPT !.pc = "generate",
                                                     !.inst = i]]
    /\ UNCHANGED <<settings, author, message, thumbs, files, failed, del,
                   tghost, scanVars, queueVars, upsertVars, statusVars,
                   lifeVars,
                   valVars,
                   purgeVars,
                   cacheVars,
                   resolveVars,
                   regexVars,
                   channelVars,
                   faultVars,
                   contVars,
                   retryVars,
                   dbRetryVars,
                   raceVars,
                   purgeRaceVars,
                   chainVars>>

\* generate_for_clip: download, probe, extract, resize, save small, save large.
ClipGenerate(w, outcome) ==
    /\ tw[w].pc = "generate"
    /\ files' = CASE outcome \in {"ok", "probe"} -> SizeTypes
                  [] outcome = "store_large" -> files \cup {"small"}
                  [] OTHER -> files
    /\ tw' = [tw EXCEPT ![w] =
                 IF outcome \in RaisingSteps
                 THEN [@ EXCEPT !.pc = "fail", !.step = outcome,
                                !.err = outcome]
                 ELSE [@ EXCEPT !.pc = "rows",
                                !.step = IF outcome = "probe" THEN "probe"
                                         ELSE "none"]]
    /\ UNCHANGED <<settings, author, message, clip, thumbs, failed, del,
                   tghost, scanVars, queueVars, upsertVars, statusVars,
                   lifeVars,
                   valVars,
                   purgeVars,
                   cacheVars,
                   resolveVars,
                   regexVars,
                   channelVars,
                   faultVars,
                   contVars,
                   retryVars,
                   dbRetryVars,
                   raceVars,
                   purgeRaceVars,
                   chainVars>>

\* process_clip: Thumbnail.update_or_create for small and large; without the
\* Clip row the insert violates the foreign key and raises.
ClipRows(w) ==
    /\ tw[w].pc = "rows"
    /\ IF clip.status = "none"
       THEN /\ thumbs' = thumbs
            /\ tw' = [tw EXCEPT ![w] = [@ EXCEPT !.pc = "fail",
                                                  !.err = "integrity"]]
       ELSE /\ thumbs' = SizeTypes
            /\ tw' = [tw EXCEPT ![w] = [@ EXCEPT !.pc = "complete"]]
    /\ UNCHANGED <<settings, author, message, clip, files, failed, del,
                   tghost, scanVars, queueVars, upsertVars, statusVars,
                   lifeVars,
                   valVars,
                   purgeVars,
                   cacheVars,
                   resolveVars,
                   regexVars,
                   channelVars,
                   faultVars,
                   contVars,
                   retryVars,
                   dbRetryVars,
                   raceVars,
                   purgeRaceVars,
                   chainVars>>

\* process_clip: status "completed", return True.
ClipComplete(w) ==
    /\ tw[w].pc = "complete"
    /\ LET i == [tw[w].inst EXCEPT !.status = "completed"]
       IN clip' = SaveClip(clip, i)
    /\ tw' = [tw EXCEPT ![w] = AfterSuccess(w)]
    /\ tghost' = [tghost EXCEPT !.fails = 0, !.lastStep = tw[w].step,
                                !.lastResult = "success",
                                !.lastKind = tw[w].kind]
    /\ UNCHANGED <<settings, author, message, thumbs, files, failed, del,
                   scanVars, queueVars, upsertVars, statusVars,
                   lifeVars,
                   valVars,
                   purgeVars,
                   cacheVars,
                   resolveVars,
                   regexVars,
                   channelVars,
                   faultVars,
                   contVars,
                   retryVars,
                   dbRetryVars,
                   raceVars,
                   purgeRaceVars,
                   chainVars>>

\* The except branch: status "failed", then _record_failure reads
\* FailedThumbnail.filter(clip=clip).first().
ClipFail(w) ==
    /\ tw[w].pc = "fail"
    /\ LET i == [tw[w].inst EXCEPT !.status = "failed"]
       IN /\ clip' = SaveClip(clip, i)
          /\ \E e \in {[id |-> f.id, retry |-> f.retry] : f \in failed}
                   \cup (IF failed = {} THEN {NoRow} ELSE {}) :
                tw' = [tw EXCEPT ![w] = [@ EXCEPT !.pc = "record", !.inst = i,
                                                  !.existing = e]]
    /\ UNCHANGED <<settings, author, message, thumbs, files, failed, del,
                   tghost, scanVars, queueVars, upsertVars, statusVars,
                   lifeVars,
                   valVars,
                   purgeVars,
                   cacheVars,
                   resolveVars,
                   regexVars,
                   channelVars,
                   faultVars,
                   contVars,
                   retryVars,
                   dbRetryVars,
                   raceVars,
                   purgeRaceVars,
                   chainVars>>

\* _record_failure: update the row it read, or create one; process_clip
\* returns False.  The create raises when the Clip row is gone.
ClipRecord(w) ==
    /\ tw[w].pc = "record"
    /\ LET e == tw[w].existing
           rc == e.retry + 1
       IN IF e.id # 0
          THEN /\ failed' = {IF f.id = e.id
                             THEN [id |-> f.id, retry |-> rc,
                                   delay |-> BackoffDelay(rc),
                                   err |-> tw[w].err]
                             ELSE f : f \in failed}
               /\ tghost' = [tghost EXCEPT !.fails = @ + 1,
                                !.lastErr = tw[w].err,
                                !.lastStep = tw[w].step,
                                !.lastResult = "failure",
                                !.lastKind = tw[w].kind]
          ELSE IF clip.status = "none"
          THEN /\ failed' = failed
               /\ tghost' = [tghost EXCEPT !.lastStep = tw[w].step,
                                !.lastResult = "raised",
                                !.lastKind = tw[w].kind]
          ELSE /\ failed' = failed \cup
                      {[id |-> tghost.rowsCreated + 1, retry |-> 1,
                        delay |-> backoff_minutes[1], err |-> tw[w].err]}
               /\ tghost' = [tghost EXCEPT !.rowsCreated = @ + 1,
                                !.fails = @ + 1,
                                !.lastErr = tw[w].err,
                                !.lastStep = tw[w].step,
                                !.lastResult = "failure",
                                !.lastKind = tw[w].kind]
    /\ tw' = [tw EXCEPT ![w] = IdleThumbWorker]
    /\ UNCHANGED <<settings, author, message, clip, thumbs, files, del,
                   scanVars, queueVars, upsertVars, statusVars,
                   lifeVars,
                   valVars,
                   purgeVars,
                   cacheVars,
                   resolveVars,
                   regexVars,
                   channelVars,
                   faultVars,
                   contVars,
                   retryVars,
                   dbRetryVars,
                   raceVars,
                   purgeRaceVars,
                   chainVars>>

\* retry_failed_thumbnails after a True result: failed_thumbnail.delete().
RetryDelete(w) ==
    /\ tw[w].kind = "retry" /\ tw[w].pc = "delete"
    /\ failed' = {f \in failed : f.id # tw[w].row}
    /\ tw' = [tw EXCEPT ![w] = IdleThumbWorker]
    /\ UNCHANGED <<settings, author, message, clip, thumbs, files, del,
                   tghost, scanVars, queueVars, upsertVars, statusVars,
                   lifeVars,
                   valVars,
                   purgeVars,
                   cacheVars,
                   resolveVars,
                   regexVars,
                   channelVars,
                   faultVars,
                   contVars,
                   retryVars,
                   dbRetryVars,
                   raceVars,
                   purgeRaceVars,
                   chainVars>>

\* The worker process dies inside a job on the clip: its locals are lost,
\* the rows stay as they are.
ThumbWorkerCrash(w) ==
    /\ tw[w].kind # "idle"
    /\ tw' = [tw EXCEPT ![w] = IdleThumbWorker]
    /\ UNCHANGED <<settings, author, message, clip, thumbs, files, failed, del,
                   tghost, scanVars, queueVars, upsertVars, statusVars,
                   lifeVars,
                   valVars,
                   purgeVars,
                   cacheVars,
                   resolveVars,
                   regexVars,
                   channelVars,
                   faultVars,
                   contVars,
                   retryVars,
                   dbRetryVars,
                   raceVars,
                   purgeRaceVars,
                   chainVars>>

\* process_message_deletion / purge_channel: read the clip and its Thumbnail
\* rows.
DeleteRead ==
    /\ del.pc = "idle"
    /\ tghost.jobs < MaxThumbJobs
    /\ message # 0 /\ clip.status # "none"
    /\ del' = [pc |-> "thumbs", listed |-> thumbs]
    /\ tghost' = [tghost EXCEPT !.jobs = @ + 1]
    /\ UNCHANGED <<settings, author, message, clip, thumbs, files, failed, tw,
                   scanVars, queueVars, upsertVars, statusVars,
                   lifeVars,
                   valVars,
                   purgeVars,
                   cacheVars,
                   resolveVars,
                   regexVars,
                   channelVars,
                   faultVars,
                   contVars,
                   retryVars,
                   dbRetryVars,
                   raceVars,
                   purgeRaceVars,
                   chainVars>>

\* storage.delete for every listed row, then Thumbnail.filter(clip_id).delete().
DeleteThumbs ==
    /\ del.pc = "thumbs"
    /\ files' = files \ del.listed
    /\ thumbs' = {}
    /\ del' = [del EXCEPT !.pc = "clip"]
    /\ UNCHANGED <<settings, author, message, clip, failed, tw, tghost,
                   scanVars, queueVars, upsertVars, statusVars,
                   lifeVars,
                   valVars,
                   purgeVars,
                   cacheVars,
                   resolveVars,
                   regexVars,
                   channelVars,
                   faultVars,
                   contVars,
                   retryVars,
                   dbRetryVars,
                   raceVars,
                   purgeRaceVars,
                   chainVars>>

\* clip.delete() / Clip.filter(...).delete(); rows that reference the clip
\* go with it.
DeleteClip ==
    /\ del.pc = "clip"
    /\ clip' = NoClip
    /\ thumbs' = {}
    /\ failed' = {}
    /\ del' = [del EXCEPT !.pc = "message"]
    /\ UNCHANGED <<settings, author, message, files, tw, tghost,
                   scanVars, queueVars, upsertVars, statusVars,
                   lifeVars,
                   valVars,
                   purgeVars,
                   cacheVars,
                   resolveVars,
                   regexVars,
                   channelVars,
                   faultVars,
                   contVars,
                   retryVars,
                   dbRetryVars,
                   raceVars,
                   purgeRaceVars,
                   chainVars>>

\* message.delete() / Message.filter(...).delete(); a clip stored again in
\* the meantime goes with it.
DeleteMessage ==
    /\ del.pc = "message"
    /\ message' = 0
    /\ clip' = NoClip
    /\ thumbs' = {}
    /\ failed' = {}
    /\ del' = NoDeletion
    /\ UNCHANGED <<settings, author, files, tw, tghost, scanVars, queueVars, upsertVars, statusVars,
                   lifeVars,
                   valVars,
                   purgeVars,
                   cacheVars,
                   resolveVars,
                   regexVars,
                   channelVars,
                   faultVars,
                   contVars,
                   retryVars,
                   dbRetryVars,
                   raceVars,
                   purgeRaceVars,
                   chainVars>>

\* The CDN URL stored with the clip passes its expires_at.
UrlExpires ==
    /\ clip.status # "none" /\ ~clip.expired
    /\ clip' = [clip EXCEPT !.expired = TRUE]
    /\ UNCHANGED <<settings, author, message, thumbs, files, failed, tw, del,
                   tghost, scanVars, queueVars, upsertVars, statusVars,
                   lifeVars,
                   valVars,
                   purgeVars,
                   cacheVars,
                   resolveVars,
                   regexVars,
                   channelVars,
                   faultVars,
                   contVars,
                   retryVars,
                   dbRetryVars,
                   raceVars,
                   purgeRaceVars,
                   chainVars>>

\* The channel's thumbnail settings are edited.
ChangeSettings ==
    /\ tghost.changes < 1
    /\ settings' = CHOOSE h \in SettingsHashes : h # settings
    /\ tghost' = [tghost EXCEPT !.changes = @ + 1]
    /\ UNCHANGED <<author, message, clip, thumbs, files, failed, tw, del,
                   scanVars, queueVars, upsertVars, statusVars,
                   lifeVars,
                   valVars,
                   purgeVars,
                   cacheVars,
                   resolveVars,
                   regexVars,
                   channelVars,
                   faultVars,
                   contVars,
                   retryVars,
                   dbRetryVars,
                   raceVars,
                   purgeRaceVars,
                   chainVars>>

\* ---------------------------------------------- bulk upserts of clips
\* Clip ids, payloads per id, rows per call and calls per behaviour.
MaxClipIds == 2
MaxPayloads == 2
MaxBatchLen == 2
MaxUpsertCalls == 3

ClipIds == 1..MaxClipIds
Payloads == 1..MaxPayloads
NoClipRow == [payload |-> 0, created |-> 0, updated |-> 0]

\* One row of VALUES under ON CONFLICT (id) DO UPDATE: every payload column
\* and updated_at are overwritten, created_at is kept.
UpsertRowInsertOnly(row, payload, now) ==
    IF row.payload = 0
    THEN [payload |-> payload, created |-> now, updated |-> now]
    ELSE row

UpsertRow(row, payload, now) ==
    IF row.payload = 0
    THEN [payload |-> payload, created |-> now, updated |-> now]
    ELSE [payload |-> payload, created |-> row.created, updated |-> now]

\* execute_many: the statement once per element of values, in order.
RECURSIVE execute_many(_, _, _)
execute_many(table, values, now) ==
    IF values = <<>> THEN table
    ELSE execute_many(
             [table EXCEPT ![values[1][1]] = UpsertRow(@, values[1][2], now)],
             Tail(values), now)

\* clips_data lists over the pairs of S, at most MaxBatchLen long.
ClipBatches(S) ==
    UNION {[1..n -> S] : n \in 0..MaxBatchLen}

\* bulk_upsert_clips(clips_data); ok = FALSE: the statement raises, the
\* function logs and returns (0, len(clips_data)).
BulkUpsertClips(batch, ok) ==
    /\ up.calls < MaxUpsertCalls
    /\ IF ok /\ batch # <<>>
       THEN /\ clipTable' = execute_many(clipTable, batch, up.calls + 1)
            /\ up' = [up EXCEPT !.calls = @ + 1,
                                !.sent = @ \cup SeqToSet(batch)]
       ELSE /\ clipTable' = clipTable
            /\ up' = [up EXCEPT !.calls = @ + 1]
    /\ UNCHANGED <<scanVars, queueVars, thumbVars, statusVars,
                   lifeVars,
                   valVars,
                   purgeVars,
                   cacheVars,
                   resolveVars,
                   regexVars,
                   channelVars,
                   faultVars,
                   contVars,
                   retryVars,
                   dbRetryVars,
                   raceVars,
                   purgeRaceVars,
                   chainVars>>

UpsertVarsIdle ==
    /\ clipTable = [c \in ClipIds |-> NoClipRow]
    /\ up = [target |-> {}, base |-> clipTable, sent |-> {}, calls |-> 0]

\* A set of (clip id, payload) pairs to carry, and the table before the
\* first call: empty, or with a row for clip 1.
UpsertVarsInit ==
    /\ clipTable \in {[c \in ClipIds |-> NoClipRow],
                      [c \in ClipIds |-> IF c = 1
                           THEN [payload |-> MaxPayloads, created |-> 0,
                                 updated |-> 0]
                           ELSE NoClipRow]}
    /\ \E S \in SUBSET (ClipIds \X Payloads) :
          /\ S # {}
          /\ up = [target |-> S, base |-> clipTable, sent |-> {},
                   calls |-> 0]

\* ------------------------- concurrent writers of ChannelScanStatus
\* Repository calls per behaviour and the largest increment of one call.
MaxCounterCalls == 3
MaxIncrement == 2

IdleCounterWorker ==
    [pc |-> "idle", inst |-> NoScanStatus, scanned |-> 0, clips |-> 0,
     status |-> "keep"]
NoCounterGhost == [calls |-> 0, scanned |-> 0, clips |-> 0]
NoRecovery == [pc |-> "idle", found |-> NoScanStatus]

\* The columns of the scan row other than the given ones.
ScanFrame(s) == [fwd |-> s.fwd, bwd |-> s.bwd, total |-> s.total,
                 count |-> s.count]

\* increment_scan_counts, first half: get_or_create_scan_status returns an
\* instance of the row.
CountRead(w, messages_scanned, clips_found) ==
    /\ cw[w].pc = "idle"
    /\ cghost.calls < MaxCounterCalls
    /\ scan' = get_or_create_scan_status(scan)
    /\ cw' = [cw EXCEPT ![w] = [IdleCounterWorker EXCEPT
                 !.pc = "increment", !.inst = scan',
                 !.scanned = messages_scanned, !.clips = clips_found]]
    /\ cghost' = [cghost EXCEPT !.calls = @ + 1]
    /\ UNCHANGED <<latest, scanEnabled, msgs, pc, job, loc, batchStream, entry,
                   result, pushed, deliveries, jobsLeft, purging, ghost, rec,
                   queueVars, thumbVars, upsertVars,
                   lifeVars,
                   valVars,
                   purgeVars,
                   cacheVars,
                   resolveVars,
                   regexVars,
                   channelVars,
                   faultVars,
                   contVars,
                   retryVars,
                   dbRetryVars,
                   raceVars,
                   purgeRaceVars,
                   chainVars>>

\* increment_scan_counts, second half: add to the instance, save() the row.
CountSave(w) ==
    /\ cw[w].pc = "increment"
    /\ scan' = increment_scan_counts(cw[w].inst, cw[w].scanned, cw[w].clips)
    /\ cghost' = [cghost EXCEPT !.scanned = @ + cw[w].scanned,
                                !.clips = @ + cw[w].clips]
    /\ cw' = [cw EXCEPT ![w] = IdleCounterWorker]
    /\ UNCHANGED <<latest, scanEnabled, msgs, pc, job, loc, batchStream, entry,
                   result, pushed, deliveries, jobsLeft, purging, ghost, rec,
                   queueVars, thumbVars, upsertVars,
                   lifeVars,
                   valVars,
                   purgeVars,
                   cacheVars,
                   resolveVars,
                   regexVars,
                   channelVars,
                   faultVars,
                   contVars,
                   retryVars,
                   dbRetryVars,
                   raceVars,
                   purgeRaceVars,
                   chainVars>>

\* update_scan_status(status=...), first half: get_or_create_scan_status.
StatusRead(w, status) ==
    /\ cw[w].pc = "idle"
    /\ cghost.calls < MaxCounterCalls
    /\ scan' = get_or_create_scan_status(scan)
    /\ cw' = [cw EXCEPT ![w] = [IdleCounterWorker EXCEPT
                 !.pc = "update", !.inst = scan', !.status = status]]
    /\ cghost' = [cghost EXCEPT !.calls = @ + 1]
    /\ UNCHANGED <<latest, scanEnabled, msgs, pc, job, loc, batchStream, entry,
                   result, pushed, deliveries, jobsLeft, purging, ghost, rec,
                   queueVars, thumbVars, upsertVars,
                   lifeVars,
                   valVars,
                   purgeVars,
                   cacheVars,
                   resolveVars,
                   regexVars,
                   channelVars,
                   faultVars,
                   contVars,
                   retryVars,
                   dbRetryVars,
                   raceVars,
                   purgeRaceVars,
                   chainVars>>

\* update_scan_status, second half: set the given fields, save() the row.
StatusSave(w) ==
    /\ cw[w].pc = "update"
    /\ scan' = update_scan_status(cw[w].inst, cw[w].status, 0, 0, "keep")
    /\ cw' = [cw EXCEPT ![w] = IdleCounterWorker]
    /\ UNCHANGED <<latest, scanEnabled, msgs, pc, job, loc, batchStream, entry,
                   result, pushed, deliveries, jobsLeft, purging, ghost, cghost,
                   rec, queueVars, thumbVars, upsertVars,
                   lifeVars,
                   valVars,
                   purgeVars,
                   cacheVars,
                   resolveVars,
                   regexVars,
                   channelVars,
                   faultVars,
                   contVars,
                   retryVars,
                   dbRetryVars,
                   raceVars,
                   purgeRaceVars,
                   chainVars>>

\* find_stale_scans: the row is RUNNING or QUEUED and was last written more
\* than timeout_minutes ago; recover_all_stale_scans keeps the instance.
FindStaleScans ==
    /\ rec.pc = "idle"
    /\ scan.status \in {"running", "queued"}
    /\ rec' = [pc |-> "found", found |-> scan]
    /\ UNCHANGED <<scanVars, cw, cghost, queueVars, thumbVars, upsertVars,
                   lifeVars,
                   valVars,
                   purgeVars,
                   cacheVars,
                   resolveVars,
                   regexVars,
                   channelVars,
                   faultVars,
                   contVars,
                   retryVars,
                   dbRetryVars,
                   raceVars,
                   purgeRaceVars,
                   chainVars>>

\* recover_stale_scan: save(update_fields=[status, error_message, updated_at])
\* of the instance found.
RecoverStaleWrite ==
    /\ rec.pc = "found"
    /\ scan' = IF scan.status = "none" THEN scan
               ELSE [scan EXCEPT !.status = "cancelled", !.err = "stale"]
    /\ rec' = NoRecovery
    /\ UNCHANGED <<latest, scanEnabled, msgs, pc, job, loc, batchStream, entry,
                   result, pushed, deliveries, jobsLeft, purging, ghost, cw,
                   cghost, queueVars, thumbVars, upsertVars,
                   lifeVars,
                   valVars,
                   purgeVars,
                   cacheVars,
                   resolveVars,
                   regexVars,
                   channelVars,
                   faultVars,
                   contVars,
                   retryVars,
                   dbRetryVars,
                   raceVars,
                   purgeRaceVars,
                   chainVars>>

StatusVarsInit ==
    /\ cw = [w \in Workers |-> IdleCounterWorker]
    /\ cghost = NoCounterGhost
    /\ rec = NoRecovery

ThumbVarsInit ==
    /\ settings = 1
    /\ author = 0
    /\ message = 0
    /\ clip = NoClip
    /\ thumbs = {}
    /\ files = {}
    /\ failed = {}
    /\ tw = [w \in ThumbWorkers |-> IdleThumbWorker]
    /\ del = NoDeletion
    /\ tghost = NoThumbGhost

\* ------------------------------------------- the life of one worker
NewLife ==
    [main |-> "new", running |-> FALSE, stale |-> "none", health |-> "none",
     signalled |-> FALSE]

\* Task.cancel(): a task that has not finished is cancelled.
CancelTask(t) == IF t \in {"created", "sleeping"} THEN "cancelled" ELSE t

\* "while self.running" of stale_scan_cleanup_loop.
StaleLoopCondition(running) == IF running THEN "sleeping" ELSE "exited"

\* Worker.__init__ (running = False), then run(): initialize() creates the
\* health-check and stale-scan tasks, the bot task is created, and run()
\* waits for the bot's ready_event.
LifeInitialize ==
    /\ life.main = "new"
    /\ life' = [life EXCEPT !.main = "waitReady", !.stale = "created",
                            !.health = "created"]
    /\ UNCHANGED <<scanVars, queueVars, thumbVars, upsertVars, statusVars,
                   valVars,
                   purgeVars,
                   cacheVars,
                   resolveVars,
                   regexVars,
                   channelVars,
                   faultVars,
                   contVars,
                   retryVars,
                   dbRetryVars,
                   raceVars,
                   purgeRaceVars,
                   chainVars>>

\* The stale-scan task runs for the first time: the loop condition.
StaleLoopStart ==
    /\ life.stale = "created"
    /\ life' = [life EXCEPT !.stale = StaleLoopCondition(life.running)]
    /\ UNCHANGED <<scanVars, queueVars, thumbVars, upsertVars, statusVars,
                   valVars,
                   purgeVars,
                   cacheVars,
                   resolveVars,
                   regexVars,
                   channelVars,
                   faultVars,
                   contVars,
                   retryVars,
                   dbRetryVars,
                   raceVars,
                   purgeRaceVars,
                   chainVars>>

\* One iteration: the sleep ends, recover_all_stale_scans cancels the scan
\* if it is stale, and the loop condition is evaluated again.
StaleLoopIterate ==
    /\ life.stale = "sleeping"
    /\ scan' = IF scan.status \in {"running", "queued"}
               THEN [scan EXCEPT !.status = "cancelled", !.err = "stale"]
               ELSE scan
    /\ life' = [life EXCEPT !.stale = StaleLoopCondition(life.running)]
    /\ UNCHANGED <<latest, scanEnabled, msgs, pc, job, loc, batchStream, entry,
                   result, pushed, deliveries, jobsLeft, purging, ghost,
                   queueVars, thumbVars, upsertVars, statusVars,
                   valVars,
                   purgeVars,
                   cacheVars,
                   resolveVars,
                   regexVars,
                   channelVars,
                   faultVars,
                   contVars,
                   retryVars,
                   dbRetryVars,
                   raceVars,
                   purgeRaceVars,
                   chainVars>>

\* start_health_check_loop runs for the first time: "while True", sleep.
HealthLoopStart ==
    /\ life.health = "created"
    /\ life' = [life EXCEPT !.health = "sleeping"]
    /\ UNCHANGED <<scanVars, queueVars, thumbVars, upsertVars, statusVars,
                   valVars,
                   purgeVars,
                   cacheVars,
                   resolveVars,
                   regexVars,
                   channelVars,
                   faultVars,
                   contVars,
                   retryVars,
                   dbRetryVars,
                   raceVars,
                   purgeRaceVars,
                   chainVars>>

\* The bot comes online: run() resumes and calls process_jobs, which sets
\* running = True.  The tasks created before run() suspended have run by
\* then (the event loop runs ready tasks in the order of their creation).
BotReady ==
    /\ life.main = "waitReady"
    /\ life.stale # "created" /\ life.health # "created"
    /\ life' = [life EXCEPT !.main = "jobs", !.running = TRUE]
    /\ UNCHANGED <<scanVars, queueVars, thumbVars, upsertVars, statusVars,
                   valVars,
                   purgeVars,
                   cacheVars,
                   resolveVars,
                   regexVars,
                   channelVars,
                   faultVars,
                   contVars,
                   retryVars,
                   dbRetryVars,
                   raceVars,
                   purgeRaceVars,
                   chainVars>>

\* The bot does not come online within 30 seconds: run() raises.
BotTimeout ==
    /\ life.main = "waitReady"
    /\ life.stale # "created" /\ life.health # "created"
    /\ life' = [life EXCEPT !.main = "stopped"]
    /\ UNCHANGED <<scanVars, queueVars, thumbVars, upsertVars, statusVars,
                   valVars,
                   purgeVars,
                   cacheVars,
                   resolveVars,
                   regexVars,
                   channelVars,
                   faultVars,
                   contVars,
                   retryVars,
                   dbRetryVars,
                   raceVars,
                   purgeRaceVars,
                   chainVars>>

\* SIGTERM / SIGINT: signal_handler sets worker.running = False.
Signal ==
    /\ life.main \in {"waitReady", "jobs"}
    /\ ~life.signalled
    /\ life' = [life EXCEPT !.running = FALSE, !.signalled = TRUE]
    /\ UNCHANGED <<scanVars, queueVars, thumbVars, upsertVars, statusVars,
                   valVars,
                   purgeVars,
                   cacheVars,
                   resolveVars,
                   regexVars,
                   channelVars,
                   faultVars,
                   contVars,
                   retryVars,
                   dbRetryVars,
                   raceVars,
                   purgeRaceVars,
                   chainVars>>

\* process_jobs: "while self.running", then read_jobs.
LifeReadJobs ==
    /\ life.main = "jobs"
    /\ life.running
    /\ ReadJobs(1)

\* process_jobs: one iteration of "for job in jobs".
LifeProcessJob(outcome, pushes, newStream) ==
    /\ life.main = "jobs"
    /\ ProcessJob(1, outcome, pushes, newStream)

\* process_jobs: the loop condition is false, the loop ends.
LifeLoopExit ==
    /\ life.main = "jobs"
    /\ ~life.running
    /\ wk[1].batch = <<>>
    /\ life' = [life EXCEPT !.main = "stopped"]
    /\ UNCHANGED <<scanVars, queueVars, thumbVars, upsertVars, statusVars,
                   valVars,
                   purgeVars,
                   cacheVars,
                   resolveVars,
                   regexVars,
                   channelVars,
                   faultVars,
                   contVars,
                   retryVars,
                   dbRetryVars,
                   raceVars,
                   purgeRaceVars,
                   chainVars>>

\* run(), finally: shutdown() cancels both background tasks.
LifeShutdown ==
    /\ life.main = "stopped"
    /\ life' = [life EXCEPT !.main = "down",
                            !.stale = CancelTask(life.stale),
                            !.health = CancelTask(life.health)]
    /\ UNCHANGED <<scanVars, queueVars, thumbVars, upsertVars, statusVars,
                   valVars,
                   purgeVars,
                   cacheVars,
                   resolveVars,
                   regexVars,
                   channelVars,
                   faultVars,
                   contVars,
                   retryVars,
                   dbRetryVars,
                   raceVars,
                   purgeRaceVars,
                   chainVars>>

\* A scan of the channel is left in RUNNING or QUEUED by a worker that died;
\* its updated_at grows older than the timeout.
ScanGetsStuck(status) ==
    /\ scan.status = "none"
    /\ scan' = [NewScanStatus EXCEPT !.status = status]
    /\ UNCHANGED <<latest, scanEnabled, msgs, pc, job, loc, batchStream, entry,
                   result, pushed, deliveries, jobsLeft, purging, ghost,
                   queueVars, storeVars>>

LifeVarsInit == life = NewLife

\* --------------------------------- validation of one batch scan job
ChannelTypes == {"text", "voice", "category", "forum"}

\* The Guild row and the Channel row the job names, as the database holds
\* them; the other fields of a missing row mean nothing.
GuildRows ==
    {[exists |-> FALSE, enabled |-> FALSE]}
        \cup {[exists |-> TRUE, enabled |-> e] : e \in BOOLEAN}

ChannelRows ==
    {[exists |-> FALSE, enabled |-> FALSE, type |-> "text"]}
        \cup {[exists |-> TRUE, enabled |-> e, type |-> t] :
                 e \in BOOLEAN, t \in ChannelTypes}

NoValidation ==
    [pc |-> "idle", guild |-> [exists |-> FALSE, enabled |-> FALSE],
     channel |-> [exists |-> FALSE, enabled |-> FALSE, type |-> "text"],
     status |-> "none", error |-> "", wasRunning |-> FALSE,
     fetched |-> FALSE, wrote |-> FALSE]

ValVarsIdle == val = NoValidation

\* validate_scan_enabled: (is_enabled, error_message), "" for None.
validate_scan_enabled(g, c) ==
    IF ~g.exists THEN [ok |-> FALSE, error |-> "Guild not found in database"]
    ELSE IF ~g.enabled THEN [ok |-> FALSE, error |-> "Guild scanning disabled"]
    ELSE IF ~c.exists
        THEN [ok |-> FALSE, error |-> "Channel not found in database"]
    ELSE IF ~c.enabled
        THEN [ok |-> FALSE,
              error |-> "Channel scanning disabled for this channel"]
    ELSE IF c.type = "category"
        THEN [ok |-> FALSE, error |-> "Cannot scan category channels"]
    ELSE [ok |-> TRUE, error |-> ""]

\* get_or_create_scan_status: Guild.get and Channel.get raise DoesNotExist
\* when the row is missing; otherwise the status row is created as queued
\* when there is none.
StatusRowRaises(v) == ~v.guild.exists \/ ~v.channel.exists

GetOrCreateStatus(v) == IF v.status = "none" THEN "queued" ELSE v.status

\* update_scan_status starts with get_or_create_scan_status, so it raises in
\* the same cases and then writes nothing.
ValUpdateStatus(v, status, error) ==
    IF StatusRowRaises(v) THEN v
    ELSE [v EXCEPT !.status = status, !.error = error,
                   !.wasRunning = @ \/ status = "running"]

\* A batch scan job for guild row g and channel row c is taken by the
\* worker; a ChannelScanStatus row can only exist when both rows do.
ValJobArrives(g, c, st) ==
    /\ val.pc = "idle"
    /\ (st # "none") => (g.exists /\ c.exists)
    /\ val' = [val EXCEPT !.pc = "get_or_create", !.guild = g,
                          !.channel = c, !.status = st]
    /\ UNCHANGED <<scanVars, queueVars, thumbVars, upsertVars, statusVars,
                   lifeVars,
                   purgeVars,
                   cacheVars,
                   resolveVars,
                   regexVars,
                   channelVars,
                   faultVars,
                   contVars,
                   retryVars,
                   dbRetryVars,
                   raceVars,
                   purgeRaceVars,
                   chainVars>>

ValGetOrCreate ==
    /\ val.pc = "get_or_create"
    /\ val' = IF StatusRowRaises(val)
              THEN [val EXCEPT !.pc = "except"]
              ELSE [val EXCEPT !.pc = "validate",
                               !.status = GetOrCreateStatus(val)]
    /\ UNCHANGED <<scanVars, queueVars, thumbVars, upsertVars, statusVars,
                   lifeVars,
                   purgeVars,
                   cacheVars,
                   resolveVars,
                   regexVars,
                   channelVars,
                   faultVars,
                   contVars,
                   retryVars,
                   dbRetryVars,
                   raceVars,
                   purgeRaceVars,
                   chainVars>>

ValValidate ==
    /\ val.pc = "validate"
    /\ LET r == validate_scan_enabled(val.guild, val.channel)
       IN  val' = IF r.ok
                  THEN [ValUpdateStatus(val, "running", "")
                            EXCEPT !.pc = "scan"]
                  ELSE [ValUpdateStatus(val, "cancelled", r.error)
                            EXCEPT !.pc = "returned"]
    /\ UNCHANGED <<scanVars, queueVars, thumbVars, upsertVars, statusVars,
                   lifeVars,
                   purgeVars,
                   cacheVars,
                   resolveVars,
                   regexVars,
                   channelVars,
                   faultVars,
                   contVars,
                   retryVars,
                   dbRetryVars,
                   raceVars,
                   purgeRaceVars,
                   chainVars>>

\* The rest of the job: the channel and a page of history are fetched, and
\* on success the page's rows are written.
ValScanPage(outcome) ==
    /\ val.pc = "scan"
    /\ val' = IF outcome = "ok"
              THEN [ValUpdateStatus(val, "succeeded", "")
                        EXCEPT !.pc = "returned", !.fetched = TRUE,
                               !.wrote = TRUE]
              ELSE [ValUpdateStatus(val, "failed", outcome)
                        EXCEPT !.pc = "returned", !.fetched = outcome = "http"]
    /\ UNCHANGED <<scanVars, queueVars, thumbVars, upsertVars, statusVars,
                   lifeVars,
                   purgeVars,
                   cacheVars,
                   resolveVars,
                   regexVars,
                   channelVars,
                   faultVars,
                   contVars,
                   retryVars,
                   dbRetryVars,
                   raceVars,
                   purgeRaceVars,
                   chainVars>>

\* except Exception of process_batch_scan: the status is set to failed (which
\* raises again when a row is missing) and the exception is raised on.
ValExcept ==
    /\ val.pc = "except"
    /\ val' = [ValUpdateStatus(val, "failed", "DoesNotExist")
                  EXCEPT !.pc = "raised"]
    /\ UNCHANGED <<scanVars, queueVars, thumbVars, upsertVars, statusVars,
                   lifeVars,
                   purgeVars,
                   cacheVars,
                   resolveVars,
                   regexVars,
                   channelVars,
                   faultVars,
                   contVars,
                   retryVars,
                   dbRetryVars,
                   raceVars,
                   purgeRaceVars,
                   chainVars>>

\* except Exception of the job loop: the status is set to cancelled inside a
\* try of its own, and the job is left pending.
ValWorkerExcept ==
    /\ val.pc = "raised"
    /\ val' = [ValUpdateStatus(val, "cancelled",
                               "Job failed and will be retried")
                  EXCEPT !.pc = "pending"]
    /\ UNCHANGED <<scanVars, queueVars, thumbVars, upsertVars, statusVars,
                   lifeVars,
                   purgeVars,
                   cacheVars,
                   resolveVars,
                   regexVars,
                   channelVars,
                   faultVars,
                   contVars,
                   retryVars,
                   dbRetryVars,
                   raceVars,
                   purgeRaceVars,
                   chainVars>>

\* ------------------------------------------------- purge of one channel
MaxPurgeClips == 2

PurgeClipIds == 1..MaxPurgeClips

\* delete() of the storage backends: the file is removed, or False is
\* returned (GCS error, file not found), or an OSError is raised.
StorageOutcomes == {"ok", "false", "raise"}

\* PURGE_COOLDOWN_MINUTES as configured: the default, and disabled.
CooldownMinutes == {5, 0}

SizeSeq == <<"small", "large">>

\* The rows of the channel before the purge: the clips, the Thumbnail rows of
\* each (with one blob file per row), one Message row per clip and one
\* message without a clip (id 0), the status row and the Channel row.
NoPurge ==
    [pc |-> "idle", clips |-> <<>>, idx |-> 1, listed |-> <<>>,
     clipRows |-> {}, msgRows |-> {}, thumbRows |-> {}, blobs |-> {},
     status |-> "none", channelRow |-> TRUE, cooldown |-> "none",
     minutes |-> 5]

PurgeVarsIdle == pg = NoPurge

\* Clip.filter(...).all(): the clips in primary-key order.
RECURSIVE ClipsInOrder(_, _)
ClipsInOrder(rows, from) ==
    IF from > MaxPurgeClips THEN <<>>
    ELSE (IF from \in rows THEN <<from>> ELSE <<>>)
             \o ClipsInOrder(rows, from + 1)

\* Thumbnail.filter(clip_id=...).all(): the sizes of the clip's rows.
ThumbsOfClip(rows, c) ==
    SelectSeq(SizeSeq, LAMBDA s : <<c, s>> \in rows)

PurgeJobArrives(cs, th, st, m) ==
    /\ pg.pc = "idle"
    /\ \A t \in th : t[1] \in cs
    /\ pg' = [pg EXCEPT !.pc = "stop_scan", !.clipRows = cs,
                        !.msgRows = cs \cup {0}, !.thumbRows = th,
                        !.blobs = th, !.status = st, !.minutes = m]
    /\ UNCHANGED <<scanVars, queueVars, thumbVars, upsertVars, statusVars,
                   lifeVars, valVars,
                   cacheVars,
                   resolveVars,
                   regexVars,
                   channelVars,
                   faultVars,
                   contVars,
                   retryVars,
                   dbRetryVars,
                   raceVars,
                   purgeRaceVars,
                   chainVars>>

\* _stop_channel_scan: the status row is fetched or created, and a running
\* scan is set to cancelled.
PurgeStopChannelScan ==
    /\ pg.pc = "stop_scan"
    /\ pg' = [pg EXCEPT !.pc = "list_clips",
                        !.status = IF @ = "running" THEN "cancelled"
                                   ELSE IF @ = "none" THEN "queued" ELSE @]
    /\ UNCHANGED <<scanVars, queueVars, thumbVars, upsertVars, statusVars,
                   lifeVars, valVars,
                   cacheVars,
                   resolveVars,
                   regexVars,
                   channelVars,
                   faultVars,
                   contVars,
                   retryVars,
                   dbRetryVars,
                   raceVars,
                   purgeRaceVars,
                   chainVars>>

PurgeListClips ==
    /\ pg.pc = "list_clips"
    /\ pg' = [pg EXCEPT !.pc = "list_thumbs", !.idx = 1,
                        !.clips = ClipsInOrder(pg.clipRows, 1)]
    /\ UNCHANGED <<scanVars, queueVars, thumbVars, upsertVars, statusVars,
                   lifeVars, valVars,
                   cacheVars,
                   resolveVars,
                   regexVars,
                   channelVars,
                   faultVars,
                   contVars,
                   retryVars,
                   dbRetryVars,
                   raceVars,
                   purgeRaceVars,
                   chainVars>>

\* for clip in clips: the clip's Thumbnail rows are listed.
PurgeListThumbs ==
    /\ pg.pc = "list_thumbs"
    /\ pg' = IF pg.idx <= Len(pg.clips)
             THEN [pg EXCEPT !.pc = "del_files",
                             !.listed = ThumbsOfClip(pg.thumbRows,
                                                     pg.clips[pg.idx])]
             ELSE [pg EXCEPT !.pc = "del_clips"]
    /\ UNCHANGED <<scanVars, queueVars, thumbVars, upsertVars, statusVars,
                   lifeVars, valVars,
                   cacheVars,
                   resolveVars,
                   regexVars,
                   channelVars,
                   faultVars,
                   contVars,
                   retryVars,
                   dbRetryVars,
                   raceVars,
                   purgeRaceVars,
                   chainVars>>

\* storage.delete of the next listed thumbnail; its result is not looked at
\* and an exception is logged.
PurgeDeleteFile(outcome) ==
    /\ pg.pc = "del_files"
    /\ pg.listed # <<>>
    /\ pg' = [pg EXCEPT !.listed = Tail(@),
                        !.blobs = IF outcome = "ok"
                                  THEN @ \ {<<pg.clips[pg.idx],
                                              Head(pg.listed)>>}
                                  ELSE @]
    /\ UNCHANGED <<scanVars, queueVars, thumbVars, upsertVars, statusVars,
                   lifeVars, valVars,
                   cacheVars,
                   resolveVars,
                   regexVars,
                   channelVars,
                   faultVars,
                   contVars,
                   retryVars,
                   dbRetryVars,
                   raceVars,
                   purgeRaceVars,
                   chainVars>>

\* Thumbnail.filter(clip_id=clip.id).delete(), then the next clip.
PurgeDeleteThumbRows ==
    /\ pg.pc = "del_files"
    /\ pg.listed = <<>>
    /\ pg' = [pg EXCEPT !.pc = "list_thumbs", !.idx = @ + 1,
                        !.thumbRows = {t \in @ : t[1] # pg.clips[pg.idx]}]
    /\ UNCHANGED <<scanVars, queueVars, thumbVars, upsertVars, statusVars,
                   lifeVars, valVars,
                   cacheVars,
                   resolveVars,
                   regexVars,
                   channelVars,
                   faultVars,
                   contVars,
                   retryVars,
                   dbRetryVars,
                   raceVars,
                   purgeRaceVars,
                   chainVars>>

\* Clip.filter(guild, channel).delete(); Thumbnail.clip is a cascading key.
PurgeDeleteClips ==
    /\ pg.pc = "del_clips"
    /\ pg' = [pg EXCEPT !.pc = "del_messages", !.clipRows = {},
                        !.thumbRows = {}]
    /\ UNCHANGED <<scanVars, queueVars, thumbVars, upsertVars, statusVars,
                   lifeVars, valVars,
                   cacheVars,
                   resolveVars,
                   regexVars,
                   channelVars,
                   faultVars,
                   contVars,
                   retryVars,
                   dbRetryVars,
                   raceVars,
                   purgeRaceVars,
                   chainVars>>

PurgeDeleteMessages ==
    /\ pg.pc = "del_messages"
    /\ pg' = [pg EXCEPT !.pc = "del_status", !.msgRows = {}]
    /\ UNCHANGED <<scanVars, queueVars, thumbVars, upsertVars, statusVars,
                   lifeVars, valVars,
                   cacheVars,
                   resolveVars,
                   regexVars,
                   channelVars,
                   faultVars,
                   contVars,
                   retryVars,
                   dbRetryVars,
                   raceVars,
                   purgeRaceVars,
                   chainVars>>

PurgeDeleteStatus ==
    /\ pg.pc = "del_status"
    /\ pg' = [pg EXCEPT !.pc = "cooldown", !.status = "none"]
    /\ UNCHANGED <<scanVars, queueVars, thumbVars, upsertVars, statusVars,
                   lifeVars, valVars,
                   cacheVars,
                   resolveVars,
                   regexVars,
                   channelVars,
                   faultVars,
                   contVars,
                   retryVars,
                   dbRetryVars,
                   raceVars,
                   purgeRaceVars,
                   chainVars>>

\* The Channel row gets purge_cooldown = now + minutes, or None when the
\* cooldown is configured as 0 or less.
PurgeSetCooldown ==
    /\ pg.pc = "cooldown"
    /\ pg' = [pg EXCEPT !.pc = "returned",
                        !.cooldown = IF ~pg.channelRow THEN @
                                     ELSE IF pg.minutes > 0 THEN "now_plus"
                                     ELSE "none"]
    /\ UNCHANGED <<scanVars, queueVars, thumbVars, upsertVars, statusVars,
                   lifeVars, valVars,
                   cacheVars,
                   resolveVars,
                   regexVars,
                   channelVars,
                   faultVars,
                   contVars,
                   retryVars,
                   dbRetryVars,
                   raceVars,
                   purgeRaceVars,
                   chainVars>>

\* ------------------------------------------------- the settings cache
MaxTime == 2
MaxVersion == 1

\* SETTINGS_CACHE_TTL_SECONDS, in ticks of the model's clock.
SETTINGS_CACHE_TTL_SECONDS == 1

\* Snowflakes as strings of characters: guilds "1" and "11", channels "1"
\* and "2".
CacheGuilds == {<<"1">>, <<"1", "1">>}
CacheChannels == {<<"1">>, <<"2">>}

\* SettingsCache._make_key: f"{guild_id}:{channel_id}".
make_key(g, c) == g \o <<":">> \o c

\* The prefix invalidate_guild would use if it left out the colon.
GuildPrefixBare(g) == g

\* invalidate_guild: prefix = f"{guild_id}:".
GuildPrefix(g) == g \o <<":">>

\* str.startswith
StartsWith(k, p) == Len(k) >= Len(p) /\ SubSeq(k, 1, Len(p)) = p

NoCacheOp == [name |-> "none", g |-> <<>>, c |-> <<>>, value |-> 0]

NoStore == [stored |-> FALSE, at |-> 0, value |-> 0]

\* cache: the dict _cache, key -> (settings, cached_at); db: the version of
\* the settings rows of each guild; call: the get_channel_settings call in
\* progress; op: the last operation and what it returned; hist: for each
\* (guild, channel) the last value stored and not invalidated since.
NoSettingsCache ==
    [cache |-> <<>>, now |-> 0, db |-> [g \in CacheGuilds |-> 0],
     call |-> [pc |-> "idle", g |-> <<>>, c |-> <<>>, use |-> TRUE,
               fetched |-> 0],
     op |-> NoCacheOp,
     hist |-> [p \in CacheGuilds \X CacheChannels |-> NoStore],
     kept |-> FALSE]

CacheVarsIdle == sc = NoSettingsCache

\* del self._cache[key] for every key of the set ks.
CacheWithout(cache, ks) == [k \in DOMAIN cache \ ks |-> cache[k]]

\* self._cache[key] = (settings, now)
CacheWith(cache, key, value, now) ==
    [k \in DOMAIN cache \cup {key} |->
        IF k = key THEN [value |-> value, cached_at |-> now] ELSE cache[k]]

\* age > ttl
Expired(e, now) == now - e.cached_at > SETTINGS_CACHE_TTL_SECONDS

SettingsCall(g, c, use) ==
    /\ sc.call.pc = "idle"
    /\ sc' = [sc EXCEPT !.call = [pc |-> "get", g |-> g, c |-> c,
                                  use |-> use, fetched |-> 0],
                        !.op = [name |-> "call", g |-> g, c |-> c,
                                value |-> 0]]
    /\ UNCHANGED <<scanVars, queueVars, thumbVars, upsertVars, statusVars,
                   lifeVars, valVars, purgeVars,
                   resolveVars,
                   regexVars,
                   channelVars,
                   faultVars,
                   contVars,
                   retryVars,
                   dbRetryVars,
                   raceVars,
                   purgeRaceVars,
                   chainVars>>

\* get_channel_settings up to the first database query: SettingsCache.get
\* when use_cache is set; a fresh entry is returned, an expired one removed.
SettingsCacheGet ==
    /\ sc.call.pc = "get"
    /\ LET g   == sc.call.g
           c   == sc.call.c
           key == make_key(g, c)
       IN  IF sc.call.use /\ key \in DOMAIN sc.cache
              /\ ~Expired(sc.cache[key], sc.now)
           THEN sc' = [sc EXCEPT !.call.pc = "idle",
                                 !.op = [name |-> "hit", g |-> g, c |-> c,
                                         value |-> sc.cache[key].value]]
           ELSE sc' = [sc EXCEPT
                          !.call.pc = "resolve",
                          !.cache = IF sc.call.use /\ key \in DOMAIN @
                                    THEN CacheWithout(@, {key}) ELSE @,
                          !.hist[<<g, c>>] =
                              IF sc.call.use /\ key \in DOMAIN sc.cache
                              THEN NoStore ELSE @,
                          !.op = [name |-> "miss", g |-> g, c |-> c,
                                  value |-> 0]]
    /\ UNCHANGED <<scanVars, queueVars, thumbVars, upsertVars, statusVars,
                   lifeVars, valVars, purgeVars,
                   resolveVars,
                   regexVars,
                   channelVars,
                   faultVars,
                   contVars,
                   retryVars,
                   dbRetryVars,
                   raceVars,
                   purgeRaceVars,
                   chainVars>>

\* The GuildSettings and ChannelSettings rows are read and merged.
SettingsResolve ==
    /\ sc.call.pc = "resolve"
    /\ sc' = [sc EXCEPT !.call.fetched = sc.db[sc.call.g],
                        !.call.pc = IF sc.call.use THEN "set" ELSE "idle",
                        !.op = [name |-> "resolved", g |-> sc.call.g,
                                c |-> sc.call.c, value |-> sc.db[sc.call.g]]]
    /\ UNCHANGED <<scanVars, queueVars, thumbVars, upsertVars, statusVars,
                   lifeVars, valVars, purgeVars,
                   resolveVars,
                   regexVars,
                   channelVars,
                   faultVars,
                   contVars,
                   retryVars,
                   dbRetryVars,
                   raceVars,
                   purgeRaceVars,
                   chainVars>>

\* SettingsCache.set, and the resolved settings are returned.
SettingsCacheSet ==
    /\ sc.call.pc = "set"
    /\ LET g == sc.call.g
           c == sc.call.c
       IN  sc' = [sc EXCEPT
                     !.call.pc = "idle",
                     !.cache = CacheWith(@, make_key(g, c), sc.call.fetched,
                                         sc.now),
                     !.hist[<<g, c>>] = [stored |-> TRUE, at |-> sc.now,
                                         value |-> sc.call.fetched],
                     !.op = [name |-> "set", g |-> g, c |-> c,
                             value |-> sc.call.fetched]]
    /\ UNCHANGED <<scanVars, queueVars, thumbVars, upsertVars, statusVars,
                   lifeVars, valVars, purgeVars,
                   resolveVars,
                   regexVars,
                   channelVars,
                   faultVars,
                   contVars,
                   retryVars,
                   dbRetryVars,
                   raceVars,
                   purgeRaceVars,
                   chainVars>>

\* SettingsCache.invalidate
CacheInvalidate(g, c) ==
    /\ sc' = [sc EXCEPT !.cache = CacheWithout(@, {make_key(g, c)}),
                        !.hist[<<g, c>>] = NoStore,
                        !.op = [name |-> "invalidate", g |-> g, c |-> c,
                                value |-> 0]]
    /\ UNCHANGED <<scanVars, queueVars, thumbVars, upsertVars, statusVars,
                   lifeVars, valVars, purgeVars,
                   resolveVars,
                   regexVars,
                   channelVars,
                   faultVars,
                   contVars,
                   retryVars,
                   dbRetryVars,
                   raceVars,
                   purgeRaceVars,
                   chainVars>>

\* SettingsCache.invalidate_guild: every key that starts with the prefix.
CacheInvalidateGuild(g) ==
    /\ LET gone == {k \in DOMAIN sc.cache : StartsWith(k, GuildPrefix(g))}
       IN  sc' = [sc EXCEPT
                     !.cache = CacheWithout(@, gone),
                     !.hist = [p \in DOMAIN @ |->
                                  IF p[1] = g THEN NoStore ELSE @[p]],
                     !.kept = @ \/ (gone # {} /\ DOMAIN sc.cache # gone),
                     !.op = [name |-> "invalidate_guild", g |-> g,
                             c |-> <<>>, value |-> 0]]
    /\ UNCHANGED <<scanVars, queueVars, thumbVars, upsertVars, statusVars,
                   lifeVars, valVars, purgeVars,
                   resolveVars,
                   regexVars,
                   channelVars,
                   faultVars,
                   contVars,
                   retryVars,
                   dbRetryVars,
                   raceVars,
                   purgeRaceVars,
                   chainVars>>

\* SettingsCache.clear
CacheClear ==
    /\ sc' = [sc EXCEPT !.cache = <<>>,
                        !.hist = [p \in DOMAIN @ |-> NoStore],
                        !.op = [name |-> "clear", g |-> <<>>, c |-> <<>>,
                                value |-> 0]]
    /\ UNCHANGED <<scanVars, queueVars, thumbVars, upsertVars, statusVars,
                   lifeVars, valVars, purgeVars,
                   resolveVars,
                   regexVars,
                   channelVars,
                   faultVars,
                   contVars,
                   retryVars,
                   dbRetryVars,
                   raceVars,
                   purgeRaceVars,
                   chainVars>>

\* The settings rows of a guild are changed by the dashboard.
SettingsRowsChange(g) ==
    /\ sc.db[g] < MaxVersion
    /\ sc' = [sc EXCEPT !.db[g] = @ + 1,
                        !.op = [name |-> "rows", g |-> g, c |-> <<>>,
                                value |-> 0]]
    /\ UNCHANGED <<scanVars, queueVars, thumbVars, upsertVars, statusVars,
                   lifeVars, valVars, purgeVars,
                   resolveVars,
                   regexVars,
                   channelVars,
                   faultVars,
                   contVars,
                   retryVars,
                   dbRetryVars,
                   raceVars,
                   purgeRaceVars,
                   chainVars>>

\* A second of wall-clock time passes.
CacheTick ==
    /\ sc.now < MaxTime
    /\ sc' = [sc EXCEPT !.now = @ + 1,
                        !.op = [name |-> "tick", g |-> <<>>, c |-> <<>>,
                                value |-> 0]]
    /\ UNCHANGED <<scanVars, queueVars, thumbVars, upsertVars, statusVars,
                   lifeVars, valVars, purgeVars,
                   resolveVars,
                   regexVars,
                   channelVars,
                   faultVars,
                   contVars,
                   retryVars,
                   dbRetryVars,
                   raceVars,
                   purgeRaceVars,
                   chainVars>>

\* ------------------------------------------- resolution of settings
\* The keys ResolvedSettings extracts, and the values a JSON row may give
\* them.
SettingKeys ==
    {"allowed_mime_types", "match_regex", "enable_message_content_storage"}

SettingValues == {"v1", "v2"}

\* A JSON object over the setting keys: a function from some of the keys.
SettingDicts ==
    UNION {[ks -> SettingValues] : ks \in SUBSET SettingKeys}

EmptyDict == <<>>

\* The defaults of ResolvedSettings.__init__.
system_defaults ==
    [k \in SettingKeys |->
        IF k = "allowed_mime_types" THEN "video_types"
        ELSE IF k = "match_regex" THEN "None"
        ELSE "True"]

\* dict.update: the keys of b override the same keys of a.
DictUpdate(a, b) ==
    [k \in DOMAIN a \cup DOMAIN b |-> IF k \in DOMAIN b THEN b[k] ELSE a[k]]

\* settings_dict.get(key, default) for the keys ResolvedSettings extracts.
ExtractSettings(d) ==
    [k \in SettingKeys |-> IF k \in DOMAIN d THEN d[k] ELSE system_defaults[k]]

\* get_channel_settings past the cache: the guild's
\* default_channel_settings when the GuildSettings row has them, updated
\* with the settings of the ChannelSettings row when it has them.
MergeSettings(in) ==
    LET merged_settings ==
            IF in.guild_row /\ in.default_channel_settings # EmptyDict
            THEN in.default_channel_settings ELSE EmptyDict
    IN  IF in.channel_row /\ in.channel_settings # EmptyDict
        THEN DictUpdate(merged_settings, in.channel_settings)
        ELSE merged_settings

\* The rows a call finds: a GuildSettings row (or none) with its two JSON
\* fields, and a ChannelSettings row (or none) with its settings.
SettingRows ==
    [guild_row : BOOLEAN, default_channel_settings : SettingDicts,
     guild_settings : SettingDicts, channel_row : BOOLEAN,
     channel_settings : SettingDicts]

NoResolve ==
    [pc |-> "idle",
     in |-> [guild_row |-> FALSE, default_channel_settings |-> EmptyDict,
             guild_settings |-> EmptyDict, channel_row |-> FALSE,
             channel_settings |-> EmptyDict],
     resolved |-> system_defaults]

ResolveVarsIdle == rs = NoResolve

\* get_channel_settings(g, c, use_cache=False) against the rows in.
ResolveSettings(in) ==
    /\ rs.pc = "idle"
    /\ in.guild_row \/ (in.default_channel_settings = EmptyDict
                        /\ in.guild_settings = EmptyDict)
    /\ in.channel_row \/ in.channel_settings = EmptyDict
    /\ rs' = [pc |-> "done", in |-> in,
              resolved |-> ExtractSettings(MergeSettings(in))]
    /\ UNCHANGED <<scanVars, queueVars, thumbVars, upsertVars, statusVars,
                   lifeVars, valVars, purgeVars, cacheVars,
                   regexVars,
                   channelVars,
                   faultVars,
                   contVars,
                   retryVars,
                   dbRetryVars,
                   raceVars,
                   purgeRaceVars,
                   chainVars>>

\* ------------------------------------------------- the regex filter
MaxPageLen == 2

\* match_regex as configured: None, a pattern that matches only content
\* holding the word, and a pattern that matches every content.
Patterns == {"None", "word", "any"}

\* message.content: missing (None), empty, holding the word, other text.
Contents == {"None", "", "word", "other"}

AttachmentKinds == {"none", "video", "image"}

PageMessages == [content : Contents, attachment : AttachmentKinds]

Pages == UNION {[1..n -> PageMessages] : n \in 1..MaxPageLen}

\* bool(re.search(pattern, content))
re_search(pattern, content) ==
    pattern = "any" \/ (pattern = "word" /\ content = "word")

\* message.content or ""
ContentOrEmpty(content) == IF content = "None" THEN "" ELSE content

\* matches_regex_filter: no filter for a pattern of None.
matches_regex_filter(m, regex_pattern) ==
    IF regex_pattern = "None" THEN TRUE
    ELSE re_search(regex_pattern, ContentOrEmpty(m.content))

\* filter_video_attachments of the message's attachments is not empty.
HasVideo(m) == m.attachment = "video"

\* build_clip_id_map: the messages (by position in the page) that get an
\* entry, those from which extract_clips_from_message extracts a clip.
build_clip_id_map(page) == {i \in 1..Len(page) : HasVideo(page[i])}

\* MessageHandler.process_message up to the Message row: whether the
\* message is stored.  The filter is applied only when match_regex and
\* message.content are both truthy.
SingleMessageStored(m, regex_pattern) ==
    /\ m.attachment # "none"
    /\ ~(regex_pattern # "None" /\ m.content \notin {"None", ""}
         /\ ~re_search(regex_pattern, m.content))
    /\ HasVideo(m)

NoFilterRun ==
    [pc |-> "idle", path |-> "batch", regex |-> "None", page |-> <<>>,
     msgRows |-> {}, clipRows |-> {}, thumbWork |-> {}]

RegexVarsIdle == rx = NoFilterRun

\* process_messages_batch for one page: the messages of the clip map get a
\* Message row and Clip rows, and the new clips get thumbnail work.
FilterBatch(regex, page) ==
    /\ rx.pc = "idle"
    /\ rx' = [pc |-> "done", path |-> "batch", regex |-> regex,
              page |-> page, msgRows |-> build_clip_id_map(page),
              clipRows |-> build_clip_id_map(page),
              thumbWork |-> build_clip_id_map(page)]
    /\ UNCHANGED <<scanVars, queueVars, thumbVars, upsertVars, statusVars,
                   lifeVars, valVars, purgeVars, cacheVars, resolveVars,
                   channelVars,
                   faultVars,
                   contVars,
                   retryVars,
                   dbRetryVars,
                   raceVars,
                   purgeRaceVars,
                   chainVars>>

\* process_message for one message.
FilterSingle(regex, m) ==
    /\ rx.pc = "idle"
    /\ LET stored == IF SingleMessageStored(m, regex) THEN {1} ELSE {}
       IN  rx' = [pc |-> "done", path |-> "single", regex |-> regex,
                  page |-> <<m>>, msgRows |-> stored, clipRows |-> stored,
                  thumbWork |-> stored]
    /\ UNCHANGED <<scanVars, queueVars, thumbVars, upsertVars, statusVars,
                   lifeVars, valVars, purgeVars, cacheVars, resolveVars,
                   channelVars,
                   faultVars,
                   contVars,
                   retryVars,
                   dbRetryVars,
                   raceVars,
                   purgeRaceVars,
                   chainVars>>

\* ------------------------------------------------ upsert of channels
ChanGuilds == {"g1", "g2"}
ChanNames == {"general", "clips"}
StoredTypes == {"text", "voice"}

\* The type of a snapshot is a string; "thread" is no ChannelType.
SnapshotTypes == {"text", "voice", "thread"}

\* _to_channel_type: ChannelType(value), text when that raises.
to_channel_type(value) == IF value \in ChannelTypes THEN value ELSE "text"

ChannelSnapshots ==
    [name : ChanNames, type : SnapshotTypes, is_nsfw : BOOLEAN]

\* The Channel row of the snapshot's id as stored: none, or a row that may
\* be soft-deleted (deleted_at set).
NoChannelRow ==
    [exists |-> FALSE, guild |-> "g1", name |-> "general", type |-> "text",
     nsfw |-> FALSE, deleted_at |-> "None"]

StoredChannelRows ==
    {NoChannelRow}
        \cup [exists : {TRUE}, guild : ChanGuilds, name : ChanNames,
              type : StoredTypes, nsfw : BOOLEAN,
              deleted_at : {"None", "set"}]

NoChannelUpsert ==
    [pc |-> "idle", before |-> NoChannelRow, row |-> NoChannelRow,
     guild |-> "g1",
     snapshot |-> [name |-> "general", type |-> "text", is_nsfw |-> FALSE]]

ChannelVarsIdle == ch = NoChannelUpsert

\* The body of the loop for one snapshot: the row the database holds
\* afterwards.  obj is the instance in memory; only obj.save() writes it.
UpsertOneChannel(stored, g, s) ==
    IF ~stored.exists
    THEN [exists |-> TRUE, guild |-> g, name |-> s.name,
          type |-> to_channel_type(s.type), nsfw |-> s.is_nsfw,
          deleted_at |-> "None"]
    ELSE LET unsoft == [stored EXCEPT !.deleted_at = "None"]
             obj    == [unsoft EXCEPT !.guild = g, !.name = s.name,
                                      !.type = to_channel_type(s.type),
                                      !.nsfw = s.is_nsfw]
             update_needed ==
                 \/ unsoft.guild # g
                 \/ unsoft.name # s.name
                 \/ unsoft.type # to_channel_type(s.type)
                 \/ unsoft.nsfw # s.is_nsfw
                 \/ unsoft.deleted_at # "None"
         IN  IF update_needed THEN obj ELSE stored

\* The database holds this row for the channel.
ChannelStored(stored) ==
    /\ ch.pc = "idle"
    /\ ch' = [ch EXCEPT !.pc = "stored", !.before = stored, !.row = stored]
    /\ UNCHANGED <<scanVars, queueVars, thumbVars, upsertVars, statusVars,
                   lifeVars, valVars, purgeVars, cacheVars, resolveVars,
                   regexVars,
                   faultVars,
                   contVars,
                   retryVars,
                   dbRetryVars,
                   raceVars,
                   purgeRaceVars,
                   chainVars>>

\* upsert_channels_for_guild(g, [s]) observes the channel.
UpsertChannel(g, s) ==
    /\ ch.pc = "stored"
    /\ ch' = [ch EXCEPT !.pc = "done", !.guild = g, !.snapshot = s,
                        !.row = UpsertOneChannel(ch.row, g, s)]
    /\ UNCHANGED <<scanVars, queueVars, thumbVars, upsertVars, statusVars,
                   lifeVars, valVars, purgeVars, cacheVars, resolveVars,
                   regexVars,
                   faultVars,
                   contVars,
                   retryVars,
                   dbRetryVars,
                   raceVars,
                   purgeRaceVars,
                   chainVars>>

\* ------------------------------------- errors on single messages
MaxFaultPage == 3

\* What goes wrong with a message of a scan page: nothing; an exception
\* while its clip data is collected; a row the database rejects; a failure
\* of its thumbnail generation.
BatchFaults == {"ok", "collect", "row", "thumb"}

\* What goes wrong with a message of a message job: nothing; get_message
\* raises; process_message raises.
MessageJobFaults == {"ok", "fetch", "process"}

FaultPages(faults) == UNION {[1..n -> faults] : n \in 1..MaxFaultPage}

NoFaultRun ==
    [pc |-> "idle", path |-> "batch", page |-> <<>>, idx |-> 1,
     collected |-> {}, stored |-> {}, thumbs |-> {}, logged |-> {},
     status |-> "running"]

FaultVarsIdle == pe = NoFaultRun

\* A batch scan job has fetched the page, or a message job has been read.
FaultJobArrives(path, page) ==
    /\ pe.pc = "idle"
    /\ page \in FaultPages(IF path = "batch" THEN BatchFaults
                           ELSE MessageJobFaults)
    /\ pe' = [pe EXCEPT !.pc = IF path = "batch" THEN "collect" ELSE "loop",
                        !.path = path, !.page = page]
    /\ UNCHANGED <<scanVars, queueVars, thumbVars, upsertVars, statusVars,
                   lifeVars, valVars, purgeVars, cacheVars, resolveVars,
                   regexVars, channelVars,
                   contVars,
                   retryVars,
                   dbRetryVars,
                   raceVars,
                   purgeRaceVars,
                   chainVars>>

\* process_messages_batch up to the bulk upserts: build_clip_id_map and
\* _collect_message_data loop over the messages with no try; an exception
\* for one message leaves process_messages_batch.
FaultCollect ==
    /\ pe.pc = "collect"
    /\ pe' = IF \E i \in 1..Len(pe.page) : pe.page[i] = "collect"
             THEN [pe EXCEPT !.pc = "except"]
             ELSE [pe EXCEPT !.pc = "upsert",
                             !.collected = 1..Len(pe.page)]
    /\ UNCHANGED <<scanVars, queueVars, thumbVars, upsertVars, statusVars,
                   lifeVars, valVars, purgeVars, cacheVars, resolveVars,
                   regexVars, channelVars,
                   contVars,
                   retryVars,
                   dbRetryVars,
                   raceVars,
                   purgeRaceVars,
                   chainVars>>

\* _bulk_upsert_data: one execute_many for all messages and one for all
\* clips; a rejected row fails the whole statement, which is logged, and the
\* clips then fail on their message key.
FaultBulkUpsert ==
    /\ pe.pc = "upsert"
    /\ pe' = IF \E i \in pe.collected : pe.page[i] = "row"
             THEN [pe EXCEPT !.pc = "thumbs", !.logged = pe.collected]
             ELSE [pe EXCEPT !.pc = "thumbs", !.stored = pe.collected]
    /\ UNCHANGED <<scanVars, queueVars, thumbVars, upsertVars, statusVars,
                   lifeVars, valVars, purgeVars, cacheVars, resolveVars,
                   regexVars, channelVars,
                   contVars,
                   retryVars,
                   dbRetryVars,
                   raceVars,
                   purgeRaceVars,
                   chainVars>>

\* _generate_thumbnails: process_clip for every stored clip; it returns
\* False for a clip whose generation fails.
FaultThumbnails ==
    /\ pe.pc = "thumbs"
    /\ pe' = [pe EXCEPT !.pc = "done",
                        !.thumbs = {i \in pe.stored : pe.page[i] # "thumb"},
                        !.logged = @ \cup {i \in pe.stored :
                                              pe.page[i] = "thumb"},
                        !.status = "succeeded"]
    /\ UNCHANGED <<scanVars, queueVars, thumbVars, upsertVars, statusVars,
                   lifeVars, valVars, purgeVars, cacheVars, resolveVars,
                   regexVars, channelVars,
                   contVars,
                   retryVars,
                   dbRetryVars,
                   raceVars,
                   purgeRaceVars,
                   chainVars>>

\* except Exception of process_batch_scan: failed, and raised on.
FaultExcept ==
    /\ pe.pc = "except"
    /\ pe' = [pe EXCEPT !.pc = "raised", !.status = "failed"]
    /\ UNCHANGED <<scanVars, queueVars, thumbVars, upsertVars, statusVars,
                   lifeVars, valVars, purgeVars, cacheVars, resolveVars,
                   regexVars, channelVars,
                   contVars,
                   retryVars,
                   dbRetryVars,
                   raceVars,
                   purgeRaceVars,
                   chainVars>>

\* process_message_scan, one turn of its loop: the message is fetched and
\* processed inside a try; an exception is logged and the loop goes on.
FaultMessageLoop ==
    /\ pe.pc = "loop"
    /\ pe.idx <= Len(pe.page)
    /\ pe' = IF pe.page[pe.idx] = "ok"
             THEN [pe EXCEPT !.idx = @ + 1, !.stored = @ \cup {pe.idx},
                             !.thumbs = @ \cup {pe.idx}]
             ELSE [pe EXCEPT !.idx = @ + 1, !.logged = @ \cup {pe.idx}]
    /\ UNCHANGED <<scanVars, queueVars, thumbVars, upsertVars, statusVars,
                   lifeVars, valVars, purgeVars, cacheVars, resolveVars,
                   regexVars, channelVars,
                   contVars,
                   retryVars,
                   dbRetryVars,
                   raceVars,
                   purgeRaceVars,
                   chainVars>>

\* process_message_scan after its loop.
FaultMessageFinish ==
    /\ pe.pc = "loop"
    /\ pe.idx > Len(pe.page)
    /\ pe' = [pe EXCEPT !.pc = "done"]
    /\ UNCHANGED <<scanVars, queueVars, thumbVars, upsertVars, statusVars,
                   lifeVars, valVars, purgeVars, cacheVars, resolveVars,
                   regexVars, channelVars,
                   contVars,
                   retryVars,
                   dbRetryVars,
                   raceVars,
                   purgeRaceVars,
                   chainVars>>

\* ---------------------------------------------------- continuation jobs
\* Guild and channel ids of the jobs (strings in BaseJob).
ContGuilds == {"1", "2"}
ContChannels == {"10", "20"}

\* _build_stream_name: the parts joined by ":"; a falsy guild_id or job_type
\* is left out.
_build_stream_name(guild_id, job_type) ==
    <<"jobs">> \o (IF guild_id # "" THEN <<"guild", guild_id>> ELSE <<>>)
               \o (IF job_type # "" THEN <<job_type>> ELSE <<>>)

ContStreamNames ==
    {_build_stream_name(g, t) : g \in ContGuilds \cup {""}, t \in {"batch", ""}}

\* BaseJob fields around the fields of a BatchScanJob.
ScanJobOf(guild_id, channel_id, j) ==
    [guild_id |-> guild_id, channel_id |-> channel_id, scan |-> j]

\* Batch scan jobs that reach the worker.
ContJobs ==
    {ScanJobOf(g, c, BatchScanJob(d, l, b, a, ac, r)) :
        g \in ContGuilds, c \in ContChannels, d \in Directions,
        l \in 1..PageLimit, b \in {0, MaxMsg}, a \in {0, 1},
        ac \in BOOLEAN, r \in RescanModes}

NoContRun ==
    [pc |-> "idle", job |-> ScanJobOf("", "", NoJob), page |-> <<>>,
     stopped |-> FALSE, needed |-> FALSE, redis |-> "ok", snapF |-> 0,
     snapB |-> 0, outcome |-> "none", written |-> FALSE,
     streams |-> [n \in ContStreamNames |-> <<>>],
     status |-> [c \in ContChannels |-> NoScanStatus]]

ContVarsIdle == cn = NoContRun

\* RedisStreamClient.push_job on a connected client: the stream is named
\* after the guild_id and the type of the job data, and XADD appends.
PushJobData(streams, job_data) ==
    LET name == _build_stream_name(job_data.guild_id, job_data.scan.type)
    IN  [streams EXCEPT ![name] = Append(@, job_data)]

\* The continuation job of process_batch_scan with the BaseJob fields.
ContinuationOf(j, page) ==
    ScanJobOf(j.guild_id, j.channel_id, ContinuationJob(j.scan, page))

\* process_batch_scan up to the rescan policy: the status row is created and
\* set to RUNNING, the page is fetched, and the duplicates are looked up.
\* redis: the worker's client is connected ("ok"), disconnected ("down") or
\* the processor was built without one ("none").
ContJobArrives(j, lat, stored, redis) ==
    /\ cn.pc = "idle"
    /\ LET s0   == get_or_create_scan_status(cn.status[j.channel_id])
           page == get_message_history(lat, j.scan.direction, j.scan.limit,
                                       j.scan.before, j.scan.after)
       IN  cn' = [cn EXCEPT
                    !.pc = "cursor", !.job = j, !.page = page,
                    !.stopped = StoppedOnDuplicate(page, stored, j.scan.rescan),
                    !.redis = redis, !.snapF = s0.fwd, !.snapB = s0.bwd,
                    !.status[j.channel_id] =
                        update_scan_status(s0, "running", 0, 0, "none")]
    /\ UNCHANGED <<scanVars, queueVars, thumbVars, upsertVars, statusVars,
                   lifeVars, valVars, purgeVars, cacheVars, resolveVars,
                   regexVars, channelVars, faultVars,
                   retryVars,
                   dbRetryVars,
                   raceVars,
                   purgeRaceVars,
                   chainVars>>

\* "Track message IDs" of the job.
ContCursor ==
    /\ cn.pc = "cursor"
    /\ LET j == cn.job IN
       cn' = [cn EXCEPT
                !.pc = "continue",
                !.needed = ContinuationNeeded(cn.page, j.scan.limit, cn.stopped),
                !.status[j.channel_id] =
                    CursorUpdate(@, cn.snapF, cn.snapB, j.scan.direction, cn.page)]
    /\ UNCHANGED <<scanVars, queueVars, thumbVars, upsertVars, statusVars,
                   lifeVars, valVars, purgeVars, cacheVars, resolveVars,
                   regexVars, channelVars, faultVars,
                   retryVars,
                   dbRetryVars,
                   raceVars,
                   purgeRaceVars,
                   chainVars>>

\* "Queue continuation job if needed and allowed": push_job, then RUNNING;
\* push_job raises on a disconnected client, and the except clause of
\* process_batch_scan sets FAILED; else SUCCEEDED.
ContContinue ==
    /\ cn.pc = "continue"
    /\ LET j == cn.job
           c == j.channel_id
       IN
       IF cn.needed /\ j.scan.auto_continue /\ cn.redis # "none"
       THEN IF cn.redis = "down"
            THEN cn' = [cn EXCEPT
                          !.pc = "returned", !.outcome = "raised",
                          !.status[c] =
                              update_scan_status(@, "failed", 0, 0, "exception")]
            ELSE cn' = [cn EXCEPT
                          !.pc = "returned", !.outcome = "continued",
                          !.streams = PushJobData(@, ContinuationOf(j, cn.page)),
                          !.status[c] =
                              update_scan_status(@, "running", 0, 0, "none")]
       ELSE cn' = [cn EXCEPT
                     !.pc = "returned", !.outcome = "succeeded",
                     !.status[c] =
                         update_scan_status(@, "succeeded", 0, 0, "none")]
    /\ UNCHANGED <<scanVars, queueVars, thumbVars, upsertVars, statusVars,
                   lifeVars, valVars, purgeVars, cacheVars, resolveVars,
                   regexVars, channelVars, faultVars,
                   retryVars,
                   dbRetryVars,
                   raceVars,
                   purgeRaceVars,
                   chainVars>>

\* Another writer of the status row while the job runs: _stop_channel_scan
\* of a purge job (CANCELLED) or the stale-scan recovery (FAILED).
ContOtherWriter(st) ==
    /\ cn.pc \in {"cursor", "continue"}
    /\ ~cn.written
    /\ cn' = [cn EXCEPT
                !.written = TRUE,
                !.status[cn.job.channel_id] =
                    update_scan_status(@, st, 0, 0, "exception")]
    /\ UNCHANGED <<scanVars, queueVars, thumbVars, upsertVars, statusVars,
                   lifeVars, valVars, purgeVars, cacheVars, resolveVars,
                   regexVars, channelVars, faultVars,
                   retryVars,
                   dbRetryVars,
                   raceVars,
                   purgeRaceVars,
                   chainVars>>

\* ------------------------------------------------- thumbnail-retry jobs
\* FailedThumbnail rows in the table.
MaxFailedRows == 3
\* limit(10) of retry_failed_thumbnails without a clip-id list, scaled down.
RETRY_LIMIT == 2

FailedRowIds == 1..MaxFailedRows
RetryClips == {1, 2}
\* now of the job is 1: next_retry_at 0 and 1 are due, 2 is not.
RetryNow == 1
RetryTimes == 0..2

\* FailedThumbnail tables: FailedThumbnail.clip has no unique constraint, so
\* a clip may have several rows (two workers recording a failure at once,
\* or the create of the single-message path).
FailedTables ==
    UNION {[S -> [clip : RetryClips, retry : 1..2, next : RetryTimes]] :
              S \in SUBSET FailedRowIds}

\* FailedThumbnail.filter(next_retry_at__lte=now), and clip_id__in=clip_ids
\* when the list is not empty.
DueRows(table, clip_ids, now) ==
    {r \in DOMAIN table :
        /\ table[r].next <= now
        /\ clip_ids # {} => table[r].clip \in clip_ids}

\* limit = len(clip_ids) if clip_ids else 10
RetryQueryLimit(clip_ids) ==
    IF clip_ids # {} THEN Cardinality(clip_ids) ELSE RETRY_LIMIT

\* The lists the query may return: no ORDER BY, LIMIT limit.
RetrySelections(table, clip_ids, now) ==
    LET due == DueRows(table, clip_ids, now)
        n   == Min(RetryQueryLimit(clip_ids), Cardinality(due))
    IN  {s \in [1..n -> due] : \A a, b \in 1..n : a # b => s[a] # s[b]}

NoRetryJob ==
    [pc |-> "idle", now |-> 0, clip_ids |-> {}, sel |-> <<>>, i |-> 0,
     table |-> [r \in {} |-> [clip |-> 0, retry |-> 0, next |-> 0]],
     last |-> [row |-> 0, ok |-> FALSE]]

RetryVarsIdle == rt = NoRetryJob

\* _record_failure when a row of the clip exists (existing: the row
\* FailedThumbnail.filter(clip=clip).first() returned).
RecordFailure(table, existing, now) ==
    LET retry_count == table[existing].retry + 1 IN
    [table EXCEPT ![existing] =
        [@ EXCEPT !.retry = retry_count,
                  !.next = now + BackoffDelay(retry_count)]]

\* process_thumbnail_retry up to the loop of retry_failed_thumbnails.
RetryJobArrives(table, clip_ids, sel) ==
    /\ rt.pc = "idle"
    /\ sel \in RetrySelections(table, clip_ids, RetryNow)
    /\ rt' = [rt EXCEPT !.pc = "loop", !.now = RetryNow, !.table = table,
                        !.clip_ids = clip_ids, !.sel = sel, !.i = 1]
    /\ UNCHANGED <<scanVars, queueVars, thumbVars, upsertVars, statusVars,
                   lifeVars, valVars, purgeVars, cacheVars, resolveVars,
                   regexVars, channelVars, faultVars, contVars,
                   dbRetryVars,
                   raceVars,
                   purgeRaceVars,
                   chainVars>>

\* One iteration of "for failed_thumbnail in failed": process_clip returns
\* True and the row is deleted, or it fails and _record_failure updates the
\* first row it finds for the clip.
RetryProcessRow(success, existing) ==
    /\ rt.pc = "loop"
    /\ rt.i <= Len(rt.sel)
    /\ LET r == rt.sel[rt.i] IN
       /\ existing \in DOMAIN rt.table
       /\ r \in DOMAIN rt.table => rt.table[existing].clip = rt.table[r].clip
       /\ rt' = [rt EXCEPT
                   !.i = @ + 1,
                   !.last = [row |-> r, ok |-> success],
                   !.table =
                       IF success
                       THEN [x \in (DOMAIN @) \ {r} |-> @[x]]
                       ELSE RecordFailure(@, existing, rt.now)]
    /\ UNCHANGED <<scanVars, queueVars, thumbVars, upsertVars, statusVars,
                   lifeVars, valVars, purgeVars, cacheVars, resolveVars,
                   regexVars, channelVars, faultVars, contVars,
                   dbRetryVars,
                   raceVars,
                   purgeRaceVars,
                   chainVars>>

\* The loop is over: retry_failed_thumbnails returns success_count.
RetryFinish ==
    /\ rt.pc = "loop"
    /\ rt.i > Len(rt.sel)
    /\ rt' = [rt EXCEPT !.pc = "done"]
    /\ UNCHANGED <<scanVars, queueVars, thumbVars, upsertVars, statusVars,
                   lifeVars, valVars, purgeVars, cacheVars, resolveVars,
                   regexVars, channelVars, faultVars, contVars,
                   dbRetryVars,
                   raceVars,
                   purgeRaceVars,
                   chainVars>>

\* --------------------------------------------------------------- db_retry
\* Largest max_attempts of a call (DB_RETRY_MAX_ATTEMPTS is 3 by default).
MaxAttempts == 3

\* What one invocation of the wrapped operation does: it returns, or raises
\* an instance of one of these classes.
DbOutcomes ==
    {"ok", "OperationalError", "IntegrityError", "DoesNotExist",
     "DBConnectionError", "ValueError"}

\* The classes an exception is an instance of: IntegrityError is imported
\* from tortoise.exceptions next to OperationalError and derives from it, as
\* does DoesNotExist; DBConnectionError derives from BaseORMException and
\* ConnectionError.
ClassesOf(exc) ==
    CASE exc = "OperationalError"  -> {"OperationalError", "Exception"}
      [] exc = "IntegrityError"    -> {"IntegrityError", "OperationalError",
                                       "Exception"}
      [] exc = "DoesNotExist"      -> {"DoesNotExist", "OperationalError",
                                       "Exception"}
      [] exc = "DBConnectionError" -> {"DBConnectionError", "ConnectionError",
                                       "Exception"}
      [] OTHER                     -> {exc, "Exception"}

\* retry_on of db_retry() as the decorator is documented and used.
retry_on == {"OperationalError"}

\* "except retry_on as e": the clause takes instances of the listed classes.
CaughtBy(exc, classes) == ClassesOf(exc) \cap classes # {}

NoDbCall ==
    [pc |-> "idle", max_attempts |-> 0, attempt |-> 0, calls |-> 0,
     errors |-> <<>>, raised |-> "none"]

DbRetryVarsIdle == dbr = NoDbCall

\* The wrapper is called: for attempt in range(1, _max_attempts + 1).
DbCall(max_attempts) ==
    /\ dbr.pc = "idle"
    /\ dbr' = [NoDbCall EXCEPT !.pc = "try", !.max_attempts = max_attempts,
                               !.attempt = 1]
    /\ UNCHANGED <<scanVars, queueVars, thumbVars, upsertVars, statusVars,
                   lifeVars, valVars, purgeVars, cacheVars, resolveVars,
                   regexVars, channelVars, faultVars, contVars, retryVars,
                   raceVars,
                   purgeRaceVars,
                   chainVars>>

\* One pass of the loop body: the operation is invoked; it returns, or the
\* first except clause takes the exception (raise on the last attempt, else
\* sleep and go on), or the second clause raises it.
DbAttempt(outcome) ==
    /\ dbr.pc = "try"
    /\ dbr' = [dbr EXCEPT
                 !.calls = @ + 1,
                 !.errors = IF outcome = "ok" THEN @ ELSE Append(@, outcome),
                 !.pc = IF outcome = "ok" THEN "returned"
                        ELSE IF CaughtBy(outcome, retry_on)
                                /\ dbr.attempt < dbr.max_attempts
                             THEN "try" ELSE "raised",
                 !.attempt = IF outcome # "ok" /\ CaughtBy(outcome, retry_on)
                                /\ dbr.attempt < dbr.max_attempts
                             THEN @ + 1 ELSE @,
                 !.raised = IF outcome = "ok"
                               \/ (CaughtBy(outcome, retry_on)
                                   /\ dbr.attempt < dbr.max_attempts)
                            THEN "none" ELSE outcome]
    /\ UNCHANGED <<scanVars, queueVars, thumbVars, upsertVars, statusVars,
                   lifeVars, valVars, purgeVars, cacheVars, resolveVars,
                   regexVars, channelVars, faultVars, contVars, retryVars,
                   raceVars,
                   purgeRaceVars,
                   chainVars>>

\* ------------------------------------ the settings cache, concurrent callers
\* Tasks of one process that call get_channel_settings for the same channel.
Callers == 1..NumWorkers
RaceGuild == <<"1">>
RaceChannel == <<"2">>
RaceKey == make_key(RaceGuild, RaceChannel)

NoRaceCall ==
    [pc |-> "idle", fetched |-> 0, floor |-> 0, returned |-> FALSE,
     value |-> 0, missed |-> FALSE, overlap |-> FALSE]

\* cache: the dict _cache; db: the version of the settings rows of the
\* channel; inval: the version of the rows when the last invalidation of the
\* key returned; call: the calls in progress, with the value of inval when
\* the call began (floor) and whether the call missed while another miss
\* on the key was in progress (overlap).
NoRace ==
    [cache |-> <<>>, db |-> 0, inval |-> 0,
     call |-> [k \in Callers |-> NoRaceCall]]

RaceVarsIdle == cr = NoRace

MissInProgress(k) == cr.call[k].pc \in {"resolve", "set"}

\* get_channel_settings(g, c) is called with use_cache=True.
RaceCall(k) ==
    /\ cr.call[k].pc = "idle"
    /\ cr' = [cr EXCEPT !.call[k] = [NoRaceCall EXCEPT !.pc = "get",
                                                      !.floor = cr.inval]]
    /\ UNCHANGED <<scanVars, queueVars, thumbVars, upsertVars, statusVars,
                   lifeVars, valVars, purgeVars, cacheVars, resolveVars,
                   regexVars, channelVars, faultVars, contVars, retryVars,
                   dbRetryVars,
                   purgeRaceVars,
                   chainVars>>

\* SettingsCache.get: a cached entry is returned (the entry is within its
\* TTL), else the call goes on to the database.
RaceCacheGet(k) ==
    /\ cr.call[k].pc = "get"
    /\ IF RaceKey \in DOMAIN cr.cache
       THEN cr' = [cr EXCEPT !.call[k].pc = "idle",
                             !.call[k].returned = TRUE,
                             !.call[k].value = cr.cache[RaceKey].value]
       ELSE cr' = [cr EXCEPT
                     !.call = [x \in Callers |->
                         IF x = k
                         THEN [@[x] EXCEPT
                                 !.pc = "resolve", !.missed = TRUE,
                                 !.overlap = \E y \in Callers \ {k} :
                                                 MissInProgress(y)]
                         ELSE IF MissInProgress(x)
                              THEN [@[x] EXCEPT !.overlap = TRUE]
                              ELSE @[x]]]
    /\ UNCHANGED <<scanVars, queueVars, thumbVars, upsertVars, statusVars,
                   lifeVars, valVars, purgeVars, cacheVars, resolveVars,
                   regexVars, channelVars, faultVars, contVars, retryVars,
                   dbRetryVars,
                   purgeRaceVars,
                   chainVars>>

\* The GuildSettings and ChannelSettings rows are read and merged.
RaceResolve(k) ==
    /\ cr.call[k].pc = "resolve"
    /\ cr' = [cr EXCEPT !.call[k].pc = "set", !.call[k].fetched = cr.db]
    /\ UNCHANGED <<scanVars, queueVars, thumbVars, upsertVars, statusVars,
                   lifeVars, valVars, purgeVars, cacheVars, resolveVars,
                   regexVars, channelVars, faultVars, contVars, retryVars,
                   dbRetryVars,
                   purgeRaceVars,
                   chainVars>>

\* SettingsCache.set, and the resolved settings are returned.
RaceCacheSet(k) ==
    /\ cr.call[k].pc = "set"
    /\ cr' = [cr EXCEPT
                !.cache = CacheWith(@, RaceKey, cr.call[k].fetched, 0),
                !.call[k].pc = "idle",
                !.call[k].returned = TRUE,
                !.call[k].value = cr.call[k].fetched]
    /\ UNCHANGED <<scanVars, queueVars, thumbVars, upsertVars, statusVars,
                   lifeVars, valVars, purgeVars, cacheVars, resolveVars,
                   regexVars, channelVars, faultVars, contVars, retryVars,
                   dbRetryVars,
                   purgeRaceVars,
                   chainVars>>

\* The settings rows are changed through the API.
RaceRowsChange ==
    /\ cr.db < MaxVersion
    /\ cr' = [cr EXCEPT !.db = @ + 1]
    /\ UNCHANGED <<scanVars, queueVars, thumbVars, upsertVars, statusVars,
                   lifeVars, valVars, purgeVars, cacheVars, resolveVars,
                   regexVars, channelVars, faultVars, contVars, retryVars,
                   dbRetryVars,
                   purgeRaceVars,
                   chainVars>>

\* invalidate_channel_settings(g, c) runs and returns.
RaceInvalidate ==
    /\ cr.inval < cr.db \/ RaceKey \in DOMAIN cr.cache
    /\ cr' = [cr EXCEPT !.cache = CacheWithout(@, {RaceKey}),
                        !.inval = cr.db]
    /\ UNCHANGED <<scanVars, queueVars, thumbVars, upsertVars, statusVars,
                   lifeVars, valVars, purgeVars, cacheVars, resolveVars,
                   regexVars, channelVars, faultVars, contVars, retryVars,
                   dbRetryVars,
                   purgeRaceVars,
                   chainVars>>

\* invalidate_guild_settings(g) runs and returns.
RaceInvalidateGuild ==
    /\ cr.inval < cr.db \/ RaceKey \in DOMAIN cr.cache
    /\ LET gone == {x \in DOMAIN cr.cache :
                       StartsWith(x, GuildPrefix(RaceGuild))}
       IN  cr' = [cr EXCEPT !.cache = CacheWithout(@, gone),
                            !.inval = cr.db]
    /\ UNCHANGED <<scanVars, queueVars, thumbVars, upsertVars, statusVars,
                   lifeVars, valVars, purgeVars, cacheVars, resolveVars,
                   regexVars, channelVars, faultVars, contVars, retryVars,
                   dbRetryVars,
                   purgeRaceVars,
                   chainVars>>

\* ---------------------------------------------------- purge and scan jobs
PurgeRaceVarsIdle == pq = [purged |-> FALSE]

\* process_purge_channel, second half, with the completion recorded.
PurgeChannelTracked ==
    /\ purging
    /\ purging' = FALSE
    /\ msgs' = {}
    /\ scan' = NoScanStatus
    /\ pq' = [purged |-> TRUE]
    /\ UNCHANGED <<latest, scanEnabled, pc, job, loc, batchStream, entry,
                   result, pushed, deliveries, jobsLeft, ghost, queueVars,
                   thumbVars, upsertVars, statusVars, lifeVars, valVars,
                   purgeVars, cacheVars, resolveVars, regexVars, channelVars,
                   faultVars, contVars, retryVars, dbRetryVars, raceVars,
                   chainVars>>

\* ---------------------------------------------------- continuation chains
\* Jobs of one chain the model follows.
MaxChain == 6

\* latest: the newest message of the channel (its history does not change);
\* stored: the Message rows; status: the ChannelScanStatus row; queue: the
\* batch stream; chain: the jobs run so far with the page each fetched.
NoChain ==
    [started |-> FALSE, enabled |-> TRUE, latest |-> 0, stored |-> {},
     status |-> NoScanStatus, queue |-> <<>>, chain |-> <<>>]

ChainVarsIdle == chn = NoChain

\* A scan of the channel is requested: the first job has no cursor and
\* auto_continue set; Message rows of earlier scans or of real-time message
\* jobs may exist.
ChainStart(lat, stored, direction, limit, rescan, enabled) ==
    /\ ~chn.started
    /\ chn' = [chn EXCEPT
                 !.started = TRUE, !.enabled = enabled, !.latest = lat,
                 !.stored = stored,
                 !.queue = <<BatchScanJob(direction, limit, 0, 0, TRUE, rescan)>>]
    /\ UNCHANGED <<scanVars, queueVars, thumbVars, upsertVars, statusVars,
                   lifeVars, valVars, purgeVars, cacheVars, resolveVars,
                   regexVars, channelVars, faultVars, contVars, retryVars,
                   dbRetryVars, raceVars, purgeRaceVars>>

\* process_batch_scan for the next job of the stream, with no platform or
\* database error: validation, RUNNING, the page, the rescan policy, the
\* bulk upserts, the counters and cursors, and the continuation or SUCCEEDED.
ChainJob ==
    /\ chn.queue # <<>>
    /\ Len(chn.chain) < MaxChain
    /\ LET j    == Head(chn.queue)
           s0   == get_or_create_scan_status(chn.status)
           page == get_message_history(chn.latest, j.direction, j.limit,
                                       j.before, j.after)
           tp   == MessagesToProcess(page, chn.stored, j.rescan)
           stop == StoppedOnDuplicate(page, chn.stored, j.rescan)
           s1   == CursorUpdate(
                       increment_scan_counts(
                           update_scan_status(s0, "running", 0, 0, "none"),
                           Len(tp), Cardinality(ClipMessages(tp))),
                       s0.fwd, s0.bwd, j.direction, page)
           cont == ContinuationNeeded(page, j.limit, stop) /\ j.auto_continue
       IN
       IF ~chn.enabled
       THEN chn' = [chn EXCEPT
                      !.queue = Tail(@),
                      !.status = update_scan_status(s0, "cancelled", 0, 0,
                                                    "validation")]
       ELSE chn' = [chn EXCEPT
                      !.queue = IF cont
                                THEN Append(Tail(@), ContinuationJob(j, page))
                                ELSE Tail(@),
                      !.stored = @ \cup ClipMessages(tp),
                      !.status = update_scan_status(
                                     s1, IF cont THEN "running" ELSE "succeeded",
                                     0, 0, "none"),
                      !.chain = Append(@, [job |-> j, page |-> page,
                                           stopped |-> stop])]
    /\ UNCHANGED <<scanVars, queueVars, thumbVars, upsertVars, statusVars,
                   lifeVars, valVars, purgeVars, cacheVars, resolveVars,
                   regexVars, channelVars, faultVars, contVars, retryVars,
                   dbRetryVars, raceVars, purgeRaceVars>>

StoreVarsInit ==
    /\ ThumbVarsInit
    /\ UpsertVarsIdle
    /\ StatusVarsInit
    /\ LifeVarsInit
    /\ ValVarsIdle
    /\ PurgeVarsIdle
    /\ CacheVarsIdle
    /\ ResolveVarsIdle
    /\ RegexVarsIdle
    /\ ChannelVarsIdle
    /\ FaultVarsIdle
    /\ ContVarsIdle
    /\ RetryVarsIdle
    /\ DbRetryVarsIdle
    /\ RaceVarsIdle
    /\ PurgeRaceVarsIdle
    /\ ChainVarsIdle

\* ------------------------------------------------------- specifications
Init == ScanInit(MaxJobs) /\ QueueVarsInit /\ StoreVarsInit

\* The steps of process_batch_scan that do not raise.
HandlerStep ==
    \/ BatchGetOrCreate
    \/ BatchValidate
    \/ \E o \in {"ok"} \cup PlatformErrors : BatchFetchChannel(o)
    \/ \E o \in {"ok", "forbidden", "http"} : BatchFetchHistory(o)
    \/ BatchProcess
    \/ BatchCount
    \/ BatchCursor
    \/ BatchContinue

\* Scan jobs of one channel, handled one at a time, with new messages and
\* real-time message jobs in between.
Next ==
    \/ \E j \in ProducerJobs : PushProducerJob(j)
    \/ ReadJob(FALSE)
    \/ HandlerStep
    \/ BatchRaise
    \/ WorkerAck
    \/ WorkerOnError
    \/ NewMessage
    \/ \E m \in 1..MaxMsg : ProcessMessageScan(m, TRUE)

Spec == Init /\ [][Next]_vars

\* Number of producer jobs in the specifications about one job's life.
OneJob == 1

OneJobInit == ScanInit(OneJob) /\ QueueVarsInit /\ StoreVarsInit

\* One scan job and everything that writes ChannelScanStatus.status: the
\* handler, the worker's failure handling and redelivery, stale-scan
\* recovery, purge, and the scan-enabled switch.
FsmNext ==
    \/ \E j \in ProducerJobs : PushProducerJob(j)
    \/ ReadJob(FALSE)
    \/ HandlerStep
    \/ BatchRaise
    \/ WorkerAck
    \/ WorkerOnError
    \/ ClaimPending
    \/ ToggleScan
    \/ RecoverStaleScan
    \/ PurgeStopScan
    \/ PurgeChannel

FsmSpec == OneJobInit /\ [][FsmNext]_vars

\* One scan job whose worker may die at any point, redelivered to another
\* worker; nothing else writes the channel's rows.
CrashNext ==
    \/ \E j \in ProducerJobs : PushProducerJob(j)
    \/ ReadJob(TRUE)
    \/ HandlerStep
    \/ WorkerAck
    \/ WorkerCrash
    \/ ClaimPending

CrashSpec == OneJobInit /\ [][CrashNext]_vars

\* The stream: producers, workers reading, claiming and acknowledging.
QueueNext ==
    \/ \E ns \in XAddResults(qstream, nextId) : ProducerPush(ns)
    \/ \E w \in Workers : ReadJobs(w)
    \/ \E w \in Workers, o \in {"ok", "raise"}, p \in BOOLEAN,
          ns \in XAddResults(qstream, nextId) \cup {qstream} :
          ProcessJob(w, o, p, ns)
    \/ IdleTimePasses
    \/ \E w \in Workers : QueueWorkerCrash(w)

\* No scan is in progress while the stream is looked at on its own.
QueueInit ==
    /\ ScanInit(0)
    /\ latest = 0
    /\ scanEnabled
    /\ QueueVarsInit
    /\ StoreVarsInit

QueueSpec == QueueInit /\ [][QueueNext]_vars

\* Live workers keep running their loop (read_jobs, then every job of the
\* batch), and time passes.
QueueFairSpec ==
    /\ QueueInit
    /\ [][QueueNext]_vars
    /\ \A w \in Workers : WF_vars(ReadJobs(w))
    /\ \A w \in Workers :
          WF_vars(\E o \in {"ok", "raise"}, p \in BOOLEAN,
                     ns \in XAddResults(qstream, nextId) \cup {qstream} :
                     ProcessJob(w, o, p, ns))
    /\ WF_vars(IdleTimePasses)

\* The steps of process_clip and of its two callers, for worker w, with the
\* given outcomes of generate_for_clip.
ThumbWorkerStep(w, outcomes) ==
    \/ \E upd \in BOOLEAN : BatchLoad(w, upd)
    \/ BatchUpsert(w)
    \/ BatchFetchClip(w)
    \/ RetryQuery(w)
    \/ ClipStart(w)
    \/ \E o \in outcomes : ClipGenerate(w, o)
    \/ ClipRows(w)
    \/ ClipComplete(w)
    \/ ClipFail(w)
    \/ ClipRecord(w)
    \/ RetryDelete(w)

ThumbInit ==
    /\ ScanInit(0)
    /\ latest = 0
    /\ scanEnabled
    /\ QueueVarsInit
    /\ StoreVarsInit

\* Outcomes of generate_for_clip where several workers run: success, a
\* failure before any blob is written.
RacingOutcomes == {"ok", "download"}

\* Several workers on the same clip, with deletion of the message or purge of
\* its channel and URL expiry in between.
ThumbNext ==
    \/ \E w \in ThumbWorkers : ThumbWorkerStep(w, RacingOutcomes)
    \/ DeleteRead
    \/ DeleteThumbs
    \/ DeleteClip
    \/ DeleteMessage
    \/ UrlExpires

ThumbSpec == ThumbInit /\ [][ThumbNext]_vars

\* One worker: every job on the clip runs to its end before the next starts.
ThumbSeqNext ==
    \/ ThumbWorkerStep(1, GenerateOutcomes)
    \/ UrlExpires
    \/ ChangeSettings

ThumbSeqSpec == ThumbInit /\ [][ThumbSeqNext]_vars

UpsertInit ==
    /\ ScanInit(0)
    /\ latest = 0
    /\ scanEnabled
    /\ QueueVarsInit
    /\ ThumbVarsInit
    /\ UpsertVarsInit
    /\ StatusVarsInit
    /\ LifeVarsInit
    /\ ValVarsIdle
    /\ PurgeVarsIdle
    /\ CacheVarsIdle
    /\ ResolveVarsIdle
    /\ RegexVarsIdle
    /\ ChannelVarsIdle
    /\ FaultVarsIdle
    /\ ContVarsIdle
    /\ RetryVarsIdle
    /\ DbRetryVarsIdle
    /\ RaceVarsIdle
    /\ PurgeRaceVarsIdle
    /\ ChainVarsIdle

\* Calls of bulk_upsert_clips with batches over the pairs to carry, in any
\* order, with any split and any repetition.
UpsertNext ==
    \/ \E batch \in ClipBatches(up.target), ok \in BOOLEAN :
          BulkUpsertClips(batch, ok)

UpsertSpec == UpsertInit /\ [][UpsertNext]_vars

\* Workers calling increment_scan_counts and update_scan_status for the
\* same channel at the same time.
CounterNext ==
    \/ \E w \in Workers, n \in 1..MaxIncrement, c \in 0..1 : CountRead(w, n, c)
    \/ \E w \in Workers : CountSave(w)
    \/ \E w \in Workers, st \in {"running", "succeeded"} : StatusRead(w, st)
    \/ \E w \in Workers : StatusSave(w)

CounterSpec == QueueInit /\ [][CounterNext]_vars

\* One scan job and the stale-scan cleanup loop, whose query and write are
\* separate statements.
RecoveryNext ==
    \/ \E j \in ProducerJobs : PushProducerJob(j)
    \/ ReadJob(FALSE)
    \/ HandlerStep
    \/ BatchRaise
    \/ WorkerAck
    \/ WorkerOnError
    \/ FindStaleScans
    \/ RecoverStaleWrite

RecoverySpec == OneJobInit /\ [][RecoveryNext]_vars

\* One worker process from start to shutdown, with producers appending jobs.
\* The stale-scan task first runs before process_jobs sets running, so its
\* loop ends at StaleLoopStart and StaleLoopIterate is no step of the worker.
LifeNext ==
    \/ LifeInitialize
    \/ StaleLoopStart
    \/ HealthLoopStart
    \/ BotReady
    \/ BotTimeout
    \/ Signal
    \/ LifeReadJobs
    \/ \E o \in {"ok", "raise"}, p \in BOOLEAN,
          ns \in XAddResults(qstream, nextId) \cup {qstream} :
          LifeProcessJob(o, p, ns)
    \/ LifeLoopExit
    \/ LifeShutdown
    \/ \E st \in {"running", "queued"} : ScanGetsStuck(st)
    \/ \E ns \in XAddResults(qstream, nextId) : ProducerPush(ns)
    \/ IdleTimePasses

LifeSpec == QueueInit /\ [][LifeNext]_vars

\* The event loop runs every task that is ready, the worker keeps running
\* its job loop, and time passes; signals and producers are not obliged.
LifeFairSpec ==
    /\ QueueInit
    /\ [][LifeNext]_vars
    /\ WF_vars(LifeInitialize)
    /\ WF_vars(StaleLoopStart)
    /\ WF_vars(HealthLoopStart)
    /\ WF_vars(BotReady)
    /\ WF_vars(LifeReadJobs)
    /\ WF_vars(\E o \in {"ok", "raise"}, p \in BOOLEAN,
                  ns \in XAddResults(qstream, nextId) \cup {qstream} :
                  LifeProcessJob(o, p, ns))
    /\ WF_vars(LifeLoopExit)
    /\ WF_vars(LifeShutdown)
    /\ WF_vars(IdleTimePasses)

\* One worker that may die inside a job.  Nothing in the worker calls
\* cleanup_stale_thumbnails, so it is no step of the program.
ThumbCrashNext ==
    \/ ThumbWorkerStep(1, RacingOutcomes)
    \/ ThumbWorkerCrash(1)

ThumbCrashSpec == ThumbInit /\ [][ThumbCrashNext]_vars

\* A job that has started runs on unless the worker dies, and
\* thumbnail-retry jobs keep arriving; scans are started by users.
ThumbFairSpec ==
    /\ ThumbInit
    /\ [][ThumbCrashNext]_vars
    /\ WF_vars(BatchUpsert(1))
    /\ WF_vars(BatchFetchClip(1))
    /\ WF_vars(RetryQuery(1))
    /\ WF_vars(ClipStart(1))
    /\ WF_vars(\E o \in RacingOutcomes : ClipGenerate(1, o))
    /\ WF_vars(ClipRows(1))
    /\ WF_vars(ClipComplete(1))
    /\ WF_vars(ClipFail(1))
    /\ WF_vars(ClipRecord(1))
    /\ WF_vars(RetryDelete(1))

\* One batch scan job against every state of the Guild row, the Channel row
\* and the status row.
ValNext ==
    \/ \E g \in GuildRows, c \in ChannelRows, st \in {"none", "queued"} :
          ValJobArrives(g, c, st)
    \/ ValGetOrCreate
    \/ ValValidate
    \/ \E o \in {"ok", "forbidden", "http"} : ValScanPage(o)
    \/ ValExcept
    \/ ValWorkerExcept

ValSpec == QueueInit /\ [][ValNext]_vars

\* One purge_channel job, alone, against every content of the channel.
PurgeNext ==
    \/ \E cs \in SUBSET PurgeClipIds, th \in SUBSET (PurgeClipIds \X SizeTypes),
          st \in {"none", "running", "succeeded"}, m \in CooldownMinutes :
          PurgeJobArrives(cs, th, st, m)
    \/ PurgeStopChannelScan
    \/ PurgeListClips
    \/ PurgeListThumbs
    \/ \E o \in StorageOutcomes : PurgeDeleteFile(o)
    \/ PurgeDeleteThumbRows
    \/ PurgeDeleteClips
    \/ PurgeDeleteMessages
    \/ PurgeDeleteStatus
    \/ PurgeSetCooldown

PurgeSpec == QueueInit /\ [][PurgeNext]_vars

\* One caller of get_channel_settings at a time, with invalidations, changes
\* of the settings rows and the clock in between its steps.
CacheNext ==
    \/ \E g \in CacheGuilds, c \in CacheChannels, use \in BOOLEAN :
          SettingsCall(g, c, use)
    \/ SettingsCacheGet
    \/ SettingsResolve
    \/ SettingsCacheSet
    \/ \E g \in CacheGuilds, c \in CacheChannels : CacheInvalidate(g, c)
    \/ \E g \in CacheGuilds : CacheInvalidateGuild(g)
    \/ CacheClear
    \/ \E g \in CacheGuilds : SettingsRowsChange(g)
    \/ CacheTick

CacheSpec == QueueInit /\ [][CacheNext]_vars

\* One resolution of settings for every content of the settings rows.
ResolveNext ==
    /\ rs.pc = "idle"
    /\ \E in \in SettingRows : ResolveSettings(in)

ResolveSpec == QueueInit /\ [][ResolveNext]_vars

\* One page through the batch path or one message through the
\* single-message path, for every match_regex.
FilterNext ==
    \/ \E regex \in Patterns, page \in Pages : FilterBatch(regex, page)
    \/ \E regex \in Patterns, m \in PageMessages : FilterSingle(regex, m)

FilterSpec == QueueInit /\ [][FilterNext]_vars

\* One observation of a channel against every stored row.
ChannelNext ==
    \/ \E stored \in StoredChannelRows : ChannelStored(stored)
    \/ \E g \in ChanGuilds, s \in ChannelSnapshots : UpsertChannel(g, s)

ChannelSpec == QueueInit /\ [][ChannelNext]_vars

\* One scan page or one message job in which any message may go wrong.
FaultNext ==
    \/ \E path \in {"batch", "message"},
          page \in FaultPages(BatchFaults \cup MessageJobFaults) :
          FaultJobArrives(path, page)
    \/ FaultCollect
    \/ FaultBulkUpsert
    \/ FaultThumbnails
    \/ FaultExcept
    \/ FaultMessageLoop
    \/ FaultMessageFinish

FaultSpec == QueueInit /\ [][FaultNext]_vars

\* One batch scan job from its arrival to the continuation step.
ContNext ==
    \/ \E j \in ContJobs, lat \in 0..MaxMsg, stored \in {{}, {2}},
          redis \in {"ok", "down", "none"} :
          ContJobArrives(j, lat, stored, redis)
    \/ ContCursor
    \/ ContContinue
    \/ \E st \in {"cancelled", "failed"} : ContOtherWriter(st)

ContSpec == QueueInit /\ [][ContNext]_vars

\* push_job of a producer when more entries are pending than
\* _claim_pending_jobs inspects: one more job is appended.
LatePush(newStream) ==
    /\ nextId = MaxEntries + 1
    /\ Cardinality(DOMAIN pel) > XPENDING_COUNT
    /\ group' = _ensure_consumer_group(group, FALSE)
    /\ newStream \in XAddResults(qstream, nextId)
    /\ qstream' = newStream
    /\ nextId' = nextId + 1
    /\ UNCHANGED <<pel, wk, qhist, scanVars, storeVars>>

\* The stream with a pending list longer than xpending_range inspects.
ClaimNext ==
    \/ \E ns \in XAddResults(qstream, nextId) : ProducerPush(ns)
    \/ \E w \in Workers : ReadJobs(w)
    \/ \E w \in Workers, o \in {"ok", "raise"}, p \in BOOLEAN,
          ns \in XAddResults(qstream, nextId) \cup {qstream} :
          ProcessJob(w, o, p, ns)
    \/ IdleTimePasses
    \/ \E w \in Workers : QueueWorkerCrash(w)
    \/ \E ns \in XAddResults(qstream, nextId) : LatePush(ns)

ClaimSpec == QueueInit /\ [][ClaimNext]_vars

\* One thumbnail-retry job at a time.
RetryNext ==
    \/ /\ rt.pc = "idle"
       /\ \E table \in FailedTables, clip_ids \in SUBSET RetryClips :
             \E sel \in RetrySelections(table, clip_ids, RetryNow) :
                RetryJobArrives(table, clip_ids, sel)
    \/ \E success \in BOOLEAN, existing \in FailedRowIds :
          RetryProcessRow(success, existing)
    \/ RetryFinish

RetrySpec == QueueInit /\ [][RetryNext]_vars

\* One call of a wrapped operation.
DbRetryNext ==
    \/ \E n \in 1..MaxAttempts : DbCall(n)
    \/ \E outcome \in DbOutcomes : DbAttempt(outcome)

DbRetrySpec == QueueInit /\ [][DbRetryNext]_vars

\* Two tasks calling get_channel_settings on one key while the rows change
\* and the key is invalidated.
RaceNext ==
    \/ \E k \in Callers : RaceCall(k)
    \/ \E k \in Callers : RaceCacheGet(k)
    \/ \E k \in Callers : RaceResolve(k)
    \/ \E k \in Callers : RaceCacheSet(k)
    \/ RaceRowsChange
    \/ RaceInvalidate
    \/ RaceInvalidateGuild

RaceSpec == QueueInit /\ [][RaceNext]_vars

\* One scan job and its continuations, and one purge_channel job run by
\* another worker; every scan job is enqueued before the purge completes.
PurgeRaceNext ==
    \/ /\ ~pq.purged
       /\ ~purging
       /\ \E j \in ProducerJobs : PushProducerJob(j)
    \/ ReadJob(FALSE)
    \/ HandlerStep
    \/ WorkerAck
    \/ ~pq.purged /\ PurgeStopScan
    \/ PurgeChannelTracked

PurgeRaceSpec == OneJobInit /\ [][PurgeRaceNext]_vars

ChainNext ==
    \/ /\ ~chn.started
       /\ \E lat \in 0..MaxMsg, direction \in Directions, limit \in 1..PageLimit,
             rescan \in RescanModes, enabled \in BOOLEAN :
             \E stored \in SUBSET {m \in 1..lat : HasClip(m)} :
                ChainStart(lat, stored, direction, limit, rescan, enabled)
    \/ ChainJob

\* The worker keeps reading and processing the jobs of the stream.
ChainFairSpec == QueueInit /\ [][ChainNext]_vars /\ WF_vars(ChainJob)

\* ================================================================ claims
SetMax(S) == CHOOSE x \in S : \A y \in S : y <= x
SetMin(S) == CHOOSE x \in S : \A y \in S : x <= y

\* The handler returned after a run that completed the scan step.
CompletedOk == pc = "returned" /\ result \in {"continued", "succeeded"}

\* ---- C2 (as stated): a successfully completed job with auto_continue
\* enqueues exactly one continuation when the page is full and none when it
\* is partial or empty, for every direction and rescan policy.
C2_FullPageAlwaysContinues ==
    (CompletedOk /\ job.auto_continue)
        => pushed = (IF Len(loc.page) >= job.limit THEN 1 ELSE 0)

\* ---- C2 (amended): a successfully completed job with auto_continue
\* enqueues exactly one continuation when the page is full and the rescan
\* policy did not stop on an already stored message; otherwise (partial or
\* empty page, or stopped on a duplicate) it enqueues none.  A stop on a
\* duplicate happens only under policy "stop".
C2_ContinuationUnlessStopped ==
    /\ (CompletedOk /\ job.auto_continue)
          => /\ pushed = (IF Len(loc.page) >= job.limit /\ ~loc.stopped
                          THEN 1 ELSE 0)
             /\ pushed = 1 => /\ batchStream # <<>>
                              /\ \E i \in 1..Len(batchStream) :
                                    batchStream[i] = ContinuationJob(job, loc.page)
    /\ (CompletedOk /\ ~job.auto_continue) => pushed = 0
    /\ (pc \in {"count", "cursor", "continue", "returned"} /\ loc.stopped)
          => /\ job.rescan = "stop"
             /\ Len(loc.toProcess) < Len(loc.page)
             /\ \E i \in 1..Len(loc.page) : loc.page[i] \in msgs

\* A full page that stopped on a duplicate ended without continuation.
C2_Witness ==
    /\ CompletedOk /\ job.auto_continue
    /\ Len(loc.page) >= job.limit
    /\ loc.stopped
    /\ pushed = 0
    /\ result = "succeeded"

\* ---- C7 (as stated): after a platform error while fetching the channel
\* or its history the job's queue entry is not acknowledged.
C7_PlatformErrorNotAcked ==
    result = "platform" => entry # "acked"

\* ---- C7 (amended): a platform error while fetching the channel or its
\* history aborts the job (nothing is stored, counted or enqueued), sets
\* the status to failed with the reason of the error, and the handler
\* returns normally, so the worker acknowledges the entry.
C7_PlatformErrorFailsAndAcks ==
    [][ /\ (pc \in {"fetch_channel", "fetch_history"} /\ result' = "platform")
            => /\ pc' = "returned"
               /\ scan'.status = "failed"
               /\ scan'.err \in PlatformErrors
               /\ msgs' = msgs /\ pushed' = pushed /\ batchStream' = batchStream
               /\ scan'.total = scan.total /\ scan'.count = scan.count
               /\ scan'.fwd = scan.fwd /\ scan'.bwd = scan.bwd
        /\ (pc = "returned" /\ result = "platform" /\ pc' # pc)
            => entry' = "acked" /\ pc' = "idle"
        /\ (result = "platform" /\ entry = "pending") => pc = "returned"
      ]_vars

C7_Witness ==
    /\ result = "platform"
    /\ entry = "acked"
    /\ scan.status = "failed"
    /\ scan.err = "forbidden"

\* ---- C8 (as stated): whenever both cursors are set,
\* forward_message_id >= backward_message_id.
C8_ForwardNotBelowBackward ==
    (scan.fwd # 0 /\ scan.bwd # 0) => scan.fwd >= scan.bwd

\* ---- C9 (as stated): from one job to the next forward_message_id never
\* decreases and backward_message_id never increases.
C9_CursorsMonotone ==
    [][ /\ scan.fwd # 0 => scan'.fwd >= scan.fwd
        /\ scan.bwd # 0 => (scan'.bwd # 0 /\ scan'.bwd <= scan.bwd)
      ]_vars

\* ---- C10: the cursor update of one batch scan job, relative to the
\* cursors the job read when it started: both null and a non-empty page:
\* both cursors become the newest and the oldest id of the page; one
\* already set: a backward job changes only backward_message_id (to the
\* oldest id of the page), a forward job only forward_message_id (to the
\* newest); empty page: both unchanged, and the job ends succeeded.
C10_CursorUpdateRule ==
    [][ /\ (pc = "cursor" /\ pc' = "continue")
            => LET ids   == SeqToSet(loc.page)
                   first == loc.snapF = 0 /\ loc.snapB = 0
               IN  /\ loc.page = <<>>
                      => scan'.fwd = scan.fwd /\ scan'.bwd = scan.bwd
                   /\ (loc.page # <<>> /\ first)
                      => scan'.fwd = SetMax(ids) /\ scan'.bwd = SetMin(ids)
                   /\ (loc.page # <<>> /\ ~first /\ job.direction = "backward")
                      => scan'.fwd = scan.fwd /\ scan'.bwd = SetMin(ids)
                   /\ (loc.page # <<>> /\ ~first /\ job.direction = "forward")
                      => scan'.bwd = scan.bwd /\ scan'.fwd = SetMax(ids)
        /\ (pc = "continue" /\ pc' = "returned" /\ loc.page = <<>>)
            => /\ scan'.status = "succeeded"
               /\ scan'.fwd = scan.fwd /\ scan'.bwd = scan.bwd
               /\ pushed' = pushed
      ]_vars

\* A backward job on a channel whose forward cursor was set moved only the
\* backward cursor.
C10_Witness ==
    /\ pc = "continue"
    /\ job.direction = "backward"
    /\ loc.page # <<>>
    /\ loc.snapF # 0
    /\ scan.fwd = loc.snapF
    /\ scan.bwd # loc.snapB
    /\ scan.bwd = loc.page[Len(loc.page)]

\* ---- C1 (as stated): each change of ChannelScanStatus.status is one of
\* queued->running, queued->cancelled, running->succeeded, running->failed,
\* running->cancelled; in particular succeeded, failed and cancelled are
\* never left, neither by a later step of the same job.  (Creation and
\* deletion of the row are not status changes.)
C1_StatusChangesFollowFsm ==
    [][ (scan'.status # scan.status /\ scan.status # "none" /\ scan'.status # "none")
            => <<scan.status, scan'.status>> \in
                  {<<"queued", "running">>, <<"queued", "cancelled">>,
                   <<"running", "succeeded">>, <<"running", "failed">>,
                   <<"running", "cancelled">>}
      ]_vars

\* process_batch_scan run from row s0 and stored messages m0 to its normal
\* end by one worker, nothing else writing: the rows it leaves.
UninterruptedRun(s0, m0, j, lat) ==
    LET s1      == get_or_create_scan_status(s0)
        s2      == update_scan_status(s1, "running", 0, 0, "none")
        page    == get_message_history(lat, j.direction, j.limit, j.before, j.after)
        tp      == MessagesToProcess(page, m0, j.rescan)
        stopped == StoppedOnDuplicate(page, m0, j.rescan)
        s3      == increment_scan_counts(s2, Len(tp), Cardinality(ClipMessages(tp)))
        s4      == CursorUpdate(s3, s1.fwd, s1.bwd, j.direction, page)
        cont    == ContinuationNeeded(page, j.limit, stopped) /\ j.auto_continue
    IN  [scan   |-> update_scan_status(s4, IF cont THEN "running" ELSE "succeeded",
                                       0, 0, "none"),
         msgs   |-> m0 \cup ClipMessages(tp),
         stream |-> IF cont THEN <<ContinuationJob(j, page)>> ELSE <<>>]

\* ---- C5 (as stated): when the worker handling a batch scan job died and
\* another worker claimed and completed the job, the database (Message
\* rows, ChannelScanStatus status, cursors and counters) is in the state a
\* run without the crash ends in.
C5_ReclaimedRunEqualsUninterrupted ==
    (CompletedOk /\ ghost.crashed)
        => LET u == UninterruptedRun(ghost.scan0, ghost.msgs0, job, latest)
           IN  scan = u.scan /\ msgs = u.msgs

\* ---- C3 (as stated, its safety half): no appended job leaves the stream
\* before a worker has processed it without error.
C3_NoJobLostBeforeProcessed ==
    \A e \in 1..(nextId - 1) : e \in qstream \/ e \in qhist.okDone

\* ---- C4 (as stated): with live workers that keep calling read_jobs, an
\* entry that is pending and idle for min_idle_time is eventually claimed
\* (or acknowledged), however many entries are pending and whatever
\* happens to the other pending entries.
C4_IdlePendingEventuallyClaimed ==
    \A e \in Ids :
        (e \in DOMAIN pel /\ e \in qstream /\ pel[e].idle)
            ~> (e \notin DOMAIN pel \/ ~pel[e].idle)

\* ---- C6: for every job a worker reads, xack and xdel are issued exactly
\* when process_job returned: the entry then leaves the pending list and
\* the stream; when process_job raised, nothing is acknowledged, the
\* pending list is untouched (the entry stays in it), and in both cases the
\* worker goes on with the next job of the batch.
C6_AckExactlyOnReturn ==
    [][ /\ qhist'.last # qhist.last
            => LET ev == qhist'.last IN
               /\ wk[ev.w].batch # <<>> /\ ev.e = Head(wk[ev.w].batch)
               /\ wk'[ev.w].batch = Tail(wk[ev.w].batch)
               /\ ev.outcome = "ok"
                    => /\ ev.e \notin DOMAIN pel'
                       /\ ev.e \notin qstream'
                       /\ qhist'.acked = qhist.acked \cup {ev.e}
                       /\ \A x \in DOMAIN pel \ {ev.e} :
                             x \in DOMAIN pel' /\ pel'[x] = pel[x]
               /\ ev.outcome = "raise"
                    => /\ pel' = pel
                       /\ qhist'.acked = qhist.acked
        /\ qhist'.acked # qhist.acked
            => qhist'.last # qhist.last /\ qhist'.last.outcome = "ok"
        /\ qhist'.last = qhist.last
            => \A x \in DOMAIN pel \cap qstream : x \in DOMAIN pel'
      ]_vars

\* A job failed and stayed pending while the worker has its next job at
\* hand, and another job of the stream was acknowledged.
C6_Witness ==
    /\ qhist.last.outcome = "raise"
    /\ qhist.last.e \in DOMAIN pel
    /\ pel[qhist.last.e].owner = qhist.last.w
    /\ wk[qhist.last.w].batch # <<>>
    /\ qhist.acked # {}

\* ---- C11: rescan policy of a page that holds an already stored message:
\* "stop" and "continue" hand exactly the unknown messages of the page (in
\* page order) to the batch processor, "update" hands the whole page; the
\* clips of the messages handed over are stored.  After "stop" no
\* continuation is enqueued; under "continue" (and "update") the
\* continuation decision looks at the page size only.
C11_RescanPolicy ==
    [][ /\ (pc = "process" /\ pc' = "count"
            /\ \E i \in 1..Len(loc.page) : loc.page[i] \in msgs)
            => LET known   == {m \in SeqToSet(loc.page) : m \in msgs}
                   unknown == SeqToSet(loc.page) \ known
                   tp      == loc'.toProcess
               IN  /\ job.rescan \in {"stop", "continue"}
                        => /\ SeqToSet(tp) = unknown
                           /\ Len(tp) = Cardinality(unknown)
                           /\ \A i, k \in 1..Len(tp) :
                                 i < k => \E a, b \in 1..Len(loc.page) :
                                             /\ a < b
                                             /\ loc.page[a] = tp[i]
                                             /\ loc.page[b] = tp[k]
                   /\ job.rescan = "update" => tp = loc.page
                   /\ msgs' = msgs \cup {m \in SeqToSet(tp) : HasClip(m)}
                   /\ loc'.stopped = (job.rescan = "stop")
        /\ (pc = "cursor" /\ pc' = "continue")
            => /\ loc.stopped => ~loc'.contNeeded
               /\ job.rescan \in {"continue", "update"}
                    => loc'.contNeeded = (Len(loc.page) >= job.limit /\ loc.page # <<>>)
        /\ (pc = "continue" /\ pc' = "returned" /\ loc.stopped)
            => /\ pushed' = pushed
               /\ batchStream' = batchStream
               /\ scan'.status = "succeeded"
      ]_vars

\* A "stop" page with a known and an unknown message: the unknown one was
\* handed over and the scan stopped.
C11_Witness ==
    /\ pc = "returned"
    /\ job.rescan = "stop"
    /\ loc.stopped
    /\ Len(loc.page) >= job.limit
    /\ loc.toProcess # <<>>
    /\ Len(loc.toProcess) < Len(loc.page)
    /\ pushed = 0

\* No job on the clip is in progress.
ThumbQuiescent == del.pc = "idle" /\ \A w \in ThumbWorkers : tw[w].kind = "idle"

\* ---- C12: a Clip with thumbnail_status = completed has its small and its
\* large Thumbnail row and both blobs in storage, under interleavings of
\* batch upserts (with the expired-URL refresh), thumbnail processing, message
\* deletion and purge.  Stated here for the states in which no job is in
\* progress, where "every reachable state" asks for it in particular.
C12_CompletedHasThumbnails ==
    (ThumbQuiescent /\ clip.status = "completed")
        => (thumbs = SizeTypes /\ files = SizeTypes)

\* ---- C13: after the k-th consecutive failed thumbnail attempt for a clip
\* (k >= 1, no success in between) the clip is failed, its FailedThumbnail
\* row has retry_count = k and the error of the last failure, and
\* next_retry_at - last_attempted_at is the k-th element of backoff_minutes
\* (the last element for k > 6).  tghost.fails is k.
C13_KthFailureRecorded ==
    (ThumbQuiescent /\ tghost.lastResult = "failure")
        => /\ clip.status = "failed"
           /\ \E f \in failed :
                 /\ failed = {f}
                 /\ f.retry = tghost.fails
                 /\ f.err = tghost.lastErr
                 /\ f.delay = backoff_minutes[Min(tghost.fails,
                                                  Len(backoff_minutes))]

\* ---- C14: in every reachable state the clip has at most one
\* FailedThumbnail row, also when two workers record a failure for it
\* concurrently.
C14_OneFailedRowPerClip == Cardinality(failed) <= 1

\* ---- C15: after a successful thumbnail processing of the clip, started by
\* a thumbnail-retry job or by a batch scan, no FailedThumbnail row exists for
\* it: once the job that completed the clip has finished, the clip is not
\* both completed and listed in FailedThumbnail.
C15_NoFailedRowAfterSuccess ==
    (ThumbQuiescent /\ clip.status = "completed") => failed = {}

\* ---- C16: whenever a step of the media pipeline fails for the clip
\* (download, probe, frame extraction, encode or store), processing ends with
\* the clip failed and the failure recorded in FailedThumbnail with the
\* backoff schedule applied; a probe failure on the first attempt yields
\* exactly one row with retry_count = 1 and a delay of 5 minutes, and the
\* clip is not completed.  tghost.lastStep is the step that failed in the
\* last finished attempt.
C16_StepFailureEndsFailed ==
    (ThumbQuiescent /\ tghost.lastStep # "none")
        => /\ tghost.lastResult = "failure"
           /\ clip.status = "failed"
           /\ \E f \in failed : f.delay = BackoffDelay(f.retry)
           /\ (tghost.lastStep = "probe" /\ tghost.jobs = 1)
                 => \E f \in failed :
                       failed = {f} /\ f.retry = 1 /\ f.delay = 5

\* A batch processes the message again while its clip is stored completed
\* with the current settings_hash and a CDN URL that has not expired.
Redelivered(w) ==
    /\ tw[w].kind = "batch" /\ tw[w].pc = "upsert" /\ tw'[w].pc # "upsert"
    /\ tw[w].snap = clip
    /\ clip.status = "completed" /\ clip.hash = tw[w].hash /\ ~clip.expired

PayloadColumns(table) == [c \in ClipIds |-> table[c].payload]

\* The pairs of S as a list ordered by clip id, then payload.
RECURSIVE PairList(_)
PairList(S) ==
    IF S = {} THEN <<>>
    ELSE LET x == CHOOSE y \in S :
                     \A z \in S : y[1] < z[1] \/ (y[1] = z[1] /\ y[2] <= z[2])
         IN <<x>> \o PairList(S \ {x})

\* Each clip id occurs in S with one payload.
OnePayloadPerId(S) == \A x, y \in S : x[1] = y[1] => x[2] = y[2]

\* ---- C18 (as stated): for every set of (clip id, payload) pairs, every
\* sequence of bulk_upsert_clips calls that together carry exactly that set,
\* in any order, split and repetition, leaves the clip table in the same
\* final state: the one a single call with the whole set leaves.
C18_FinalStateFromSetOnly ==
    (up.sent = up.target)
        => PayloadColumns(clipTable)
             = PayloadColumns(execute_many(up.base, PairList(up.target), 1))

\* ---- C18 (amended): the same for every set in which each clip id occurs
\* with one payload, for the payload columns of the table: every carried id
\* holds its payload and every other row is as before.
C18_FinalStateFromFunctionalSet ==
    (up.sent = up.target /\ OnePayloadPerId(up.target))
        => /\ PayloadColumns(clipTable)
                = PayloadColumns(execute_many(up.base, PairList(up.target), 1))
           /\ \A c \in ClipIds :
                 /\ (\E x \in up.target : x[1] = c)
                       => <<c, clipTable[c].payload>> \in up.target
                 /\ (\A x \in up.target : x[1] # c)
                       => clipTable[c] = up.base[c]

C18_Witness ==
    /\ up.sent = up.target /\ OnePayloadPerId(up.target)
    /\ Cardinality(up.target) = MaxClipIds
    /\ up.calls = MaxUpsertCalls
    /\ up.base[1].payload # 0
    /\ clipTable[1].payload # up.base[1].payload
    /\ clipTable[1].updated = MaxUpsertCalls

\* ---- C19: scan counters are updated atomically: when workers call
\* increment_scan_counts for the same channel concurrently, also with an
\* update_scan_status in between, total_messages_scanned and message_count
\* end at the initial values (0) plus the sum of all increments.
C19_NoIncrementLost ==
    (\A w \in Workers : cw[w].pc = "idle")
        => (scan.total = cghost.scanned /\ scan.count = cghost.clips)

\* ---- C20: stale-scan recovery sets a scan to cancelled only if, when the
\* write is applied, the scan is running or queued and has not been written
\* since it was found stale; it never overwrites succeeded, failed or
\* cancelled, and it leaves both cursors and both counters unchanged.
C20_RecoveryWritesOnlyStale ==
    [][(rec.pc = "found" /\ rec'.pc = "idle")
          => /\ scan.status \in {"running", "queued"}
             /\ scan = rec.found
             /\ ScanFrame(scan') = ScanFrame(scan)]_vars

\* ---- C21: while a worker is processing jobs its stale-scan loop keeps
\* iterating: a scan that stays in running or queued past the timeout is
\* eventually set to cancelled by that loop (unless the worker is told to
\* stop first).
C21_StaleScanEventuallyCancelled ==
    (life.main = "jobs" /\ life.running /\ scan.status \in {"running", "queued"})
        ~> (scan.status = "cancelled" \/ ~life.running)

\* ---- C28: after the signal handler has set running to false the job loop
\* finishes the batch it has read, issues no further read and terminates,
\* and shutdown cancels the health and stale-scan tasks: once signalled, a
\* worker with an empty batch reads no more jobs, and a worker that is down
\* has no background task left.
C28_NoReadAfterSignal ==
    [][/\ (life.signalled /\ wk[1].batch = <<>>) => wk'[1].batch = <<>>
       /\ life'.main = "down"
             => (life'.stale \notin {"created", "sleeping"}
                 /\ life'.health \notin {"created", "sleeping"})]_vars

\* The clip is processing or pending, no job is working on it and it has no
\* FailedThumbnail row for a thumbnail-retry job to pick up.
StuckClip ==
    /\ ThumbQuiescent
    /\ clip.status \in {"processing", "pending"}
    /\ failed = {}

\* ---- C22: a clip that stays in processing or pending past the timeout
\* (after a worker died in the pipeline, or after a batch marked it pending)
\* is eventually set to failed and given a FailedThumbnail row: no clip
\* stays stuck for ever.
C22_StuckClipEventuallyFailed == []<>(~StuckClip)

\* The job named guild and channel rows with which a scan may run.
ValMayRun(v) ==
    /\ v.guild.exists /\ v.guild.enabled
    /\ v.channel.exists /\ v.channel.enabled
    /\ v.channel.type # "category"

\* ---- C23: a batch scan job sets the status to running only if the guild
\* row and the channel row exist, both message_scan_enabled flags are true
\* and the channel is no category; in every other case, a missing guild or
\* channel row included, the job ends with the status cancelled and a
\* non-empty reason, with no history fetched and no row written, and it
\* returns normally.
C23_RunsOnlyWhenValidElseCancelled ==
    /\ val.wasRunning => ValMayRun(val)
    /\ (val.pc \in {"returned", "pending"} /\ ~ValMayRun(val))
          => /\ val.pc = "returned"
             /\ val.status = "cancelled"
             /\ val.error # ""
             /\ ~val.fetched
             /\ ~val.wrote

\* The blob files a Thumbnail row (clip, size), a Clip row or a Message row
\* refers to that are still in storage.
BlobsOfClip(c) == {b \in pg'.blobs : b[1] = c}

\* ---- C24: a purge_channel job deletes the thumbnail blob files, then the
\* Thumbnail rows, the Clip rows, the Message rows and the ChannelScanStatus
\* of the channel, then sets the purge cooldown, and keeps the Channel row;
\* no Thumbnail, Clip or Message row is deleted while a blob file it refers
\* to is still stored, and when the job has returned no Clip, Message,
\* Thumbnail or ChannelScanStatus row of the channel remains.
C24_PurgeDeletesBlobsBeforeRows ==
    [][/\ \A t \in pg.thumbRows \ pg'.thumbRows : t \notin pg'.blobs
       /\ \A c \in pg.clipRows \ pg'.clipRows : BlobsOfClip(c) = {}
       /\ \A m \in pg.msgRows \ pg'.msgRows : BlobsOfClip(m) = {}
       /\ (pg.pc # "idle" /\ pg'.clipRows # pg.clipRows) => pg.thumbRows = {}
       /\ (pg.pc # "idle" /\ pg'.msgRows # pg.msgRows) => pg.clipRows = {}
       /\ (pg.pc \notin {"idle", "stop_scan"} /\ pg'.status # pg.status)
             => pg.msgRows = {}
       /\ pg'.cooldown # pg.cooldown => pg.status = "none"
       /\ pg'.channelRow
       /\ pg'.pc = "returned"
             => /\ pg'.clipRows = {} /\ pg'.msgRows = {}
                /\ pg'.thumbRows = {} /\ pg'.status = "none"
                /\ pg'.minutes > 0 => pg'.cooldown = "now_plus"]_vars

\* The keys of the cache that belong to guild g.
KeysOfGuild(cache, g) ==
    {make_key(g, c) : c \in CacheChannels} \cap DOMAIN cache

\* ---- C25: get_channel_settings(g, c) returns a cached value only if that
\* value was stored for (g, c) at most TTL seconds earlier and no
\* invalidate(g, c), invalidate_guild(g) or clear() came after the store;
\* otherwise it goes on to resolve from the database.  invalidate(g, c) and
\* invalidate_guild(g) remove exactly the entries of that channel or guild
\* and leave the entries of every other guild in place.
C25_HitIsFreshAndInvalidationExact ==
    [][/\ sc'.op.name = "hit"
             => LET h == sc.hist[<<sc'.op.g, sc'.op.c>>]
                IN  /\ h.stored
                    /\ h.value = sc'.op.value
                    /\ sc.now - h.at <= SETTINGS_CACHE_TTL_SECONDS
       /\ sc'.op.name = "miss" => sc'.call.pc = "resolve"
       /\ sc'.op.name = "invalidate"
             => /\ make_key(sc'.op.g, sc'.op.c) \notin DOMAIN sc'.cache
                /\ \A k \in DOMAIN sc.cache \ {make_key(sc'.op.g, sc'.op.c)} :
                      k \in DOMAIN sc'.cache /\ sc'.cache[k] = sc.cache[k]
       /\ sc'.op.name = "invalidate_guild"
             => /\ KeysOfGuild(sc'.cache, sc'.op.g) = {}
                /\ \A g \in CacheGuilds \ {sc'.op.g} :
                      \A k \in KeysOfGuild(sc.cache, g) :
                         k \in DOMAIN sc'.cache /\ sc'.cache[k] = sc.cache[k]
      ]_vars

\* A cached value was returned after an invalidate_guild that removed the
\* entries of one guild while another guild had entries.
C25_Witness == sc.op.name = "hit" /\ sc.kept /\ sc.now > 0

\* ---- C26: for every combination of guild.default_channel_settings,
\* guild.settings and channel.settings the resolved settings are the shallow
\* left-to-right merge of system_defaults, guild.default_channel_settings,
\* guild.settings and channel.settings: a key of guild.settings overrides
\* the same key of the defaults, a key of channel.settings overrides all.
C26_ResolvedIsFourWayMerge ==
    rs.pc = "done"
        => rs.resolved =
              DictUpdate(DictUpdate(DictUpdate(system_defaults,
                                               rs.in.default_channel_settings),
                                    rs.in.guild_settings),
                         rs.in.channel_settings)

\* ---- C27: when match_regex is configured the filter is applied to each
\* message before its attachments are looked at, in the batch path and in
\* the single-message path: a message whose content (empty when missing)
\* does not match gives no clip, no Message row and no thumbnail work.
C27_NonMatchingMessageStoresNothing ==
    rx.pc = "done"
        => \A i \in 1..Len(rx.page) :
              (rx.regex # "None"
               /\ ~re_search(rx.regex, ContentOrEmpty(rx.page[i].content)))
                 => (i \notin rx.msgRows /\ i \notin rx.clipRows
                     /\ i \notin rx.thumbWork)

\* ---- C29: after upsert_channels_for_guild has observed a channel whose
\* stored row is soft-deleted, the stored row has deleted_at = null, also
\* when name, type, nsfw flag and guild are the stored ones.
C29_ObservedChannelIsUndeleted ==
    (ch.pc = "done" /\ ch.before.exists /\ ch.before.deleted_at # "None")
        => ch.row.deleted_at = "None"

\* ---- C30: an error while handling one message of a scan page or of a
\* message job does not abort the job: the page finishes, and every message
\* with which nothing went wrong has been processed and stored.
C30_MessageErrorDoesNotAbort ==
    pe.pc \in {"done", "raised"}
        => /\ pe.pc = "done"
           /\ \A i \in 1..Len(pe.page) : pe.page[i] = "ok" => i \in pe.stored

\* The oldest and the newest message id of a page: ids grow with time.
OldestId(page) == CHOOSE m \in SeqToSet(page) : \A x \in SeqToSet(page) : m <= x

NewestId(page) == CHOOSE m \in SeqToSet(page) : \A x \in SeqToSet(page) : x <= m

\* C31: the continuation job a batch scan job enqueues has the guild,
\* channel, direction, limit and rescan policy of that job, is appended to the
\* stream jobs:guild:<guild_id>:batch and to no other stream, carries the
\* oldest id of the page as before_message_id (backward) or the newest id of
\* the page as after_message_id (forward), and the status of the channel is
\* running once it is enqueued.
C31_ContinuationKeepsJobAndCursorsOnPageEdge ==
    [][(cn.pc = "continue" /\ cn'.outcome = "continued") =>
        LET j    == cn.job
            name == <<"jobs", "guild", j.guild_id, "batch">>
            k    == cn'.streams[name][Len(cn'.streams[name])]
        IN  /\ cn'.streams[name] = Append(cn.streams[name], k)
            /\ \A n \in ContStreamNames \ {name} : cn'.streams[n] = cn.streams[n]
            /\ k.guild_id = j.guild_id
            /\ k.channel_id = j.channel_id
            /\ k.scan.type = "batch"
            /\ k.scan.direction = j.scan.direction
            /\ k.scan.limit = j.scan.limit
            /\ k.scan.rescan = j.scan.rescan
            /\ j.scan.direction = "backward" =>
                   k.scan.before = OldestId(cn.page)
            /\ j.scan.direction = "forward" =>
                   k.scan.after = NewestId(cn.page)
            /\ cn'.status[j.channel_id].status = "running"]_vars

\* A forward job of guild 2 continued after a full page of two messages while
\* another writer had cancelled the scan.
C31_Witness ==
    /\ cn.outcome = "continued"
    /\ cn.written
    /\ cn.job.guild_id = "2"
    /\ cn.job.scan.direction = "forward"
    /\ Len(cn.page) = 2
    /\ Len(cn.streams[<<"jobs", "guild", "2", "batch">>]) = 1

\* ---- C32 (as stated): in a read_jobs call that returns jobs, new entries
\* are read only when no entry of the stream is pending and idle for
\* min_idle_time; an entry changes its consumer only when it is idle for
\* min_idle_time; and the jobs returned are either all claimed or all new.
C32_IdleClaimedBeforeNewRead ==
    [][\A w \in Workers :
        (wk[w].batch = <<>> /\ wk'[w].batch # <<>>) =>
            LET got == SeqToSet(wk'[w].batch) IN
            /\ (got \ DOMAIN pel # {}) =>
                   ~\E e \in DOMAIN pel : pel[e].idle /\ e \in qstream
            /\ \A e \in got \cap DOMAIN pel : pel[e].idle
            /\ got \subseteq DOMAIN pel \/ got \cap DOMAIN pel = {}]_vars

\* ---- C33 (as stated): the batch decision for a video attachment, taken
\* from the stored clip the job loaded: a completed clip with the current
\* settings_hash is not handed to the thumbnail handler and its row is
\* rewritten (status completed) only when its expires_at is in the past; in
\* every other case the clip is upserted with thumbnail_status pending and is
\* handed to the thumbnail handler in the same job.
C33_BatchDecisionPerAttachment ==
    [][\A w \in ThumbWorkers :
          (tw[w].kind = "batch" /\ tw[w].pc = "upsert" /\ tw'[w] # tw[w])
              => LET s == tw[w].snap
                     h == tw[w].hash
                 IN  IF s.status = "completed" /\ s.hash = h
                     THEN /\ tw'[w] = IdleThumbWorker
                          /\ s.expired =>
                                clip' = [status |-> "completed", hash |-> h,
                                         expired |-> FALSE]
                          /\ ~s.expired => clip' = clip
                     ELSE /\ clip' = [status |-> "pending", hash |-> h,
                                      expired |-> FALSE]
                          /\ tw'[w].kind = "batch" /\ tw'[w].pc = "fetch"]_vars

\* ---- C34 (as stated): a thumbnail-retry job processes only rows that are
\* due (next_retry_at <= now), only rows of listed clips when a list is
\* given, and at most the limit of rows when none is given; a row whose
\* processing succeeds is deleted, and a row whose processing fails stays
\* with retry_count increased by one and next_retry_at later than now.
C34_RetryProcessesDueRowsAndReschedules ==
    [][/\ (rt.pc = "idle" /\ rt'.pc = "loop") =>
            /\ \A k \in 1..Len(rt'.sel) :
                  LET row == rt'.table[rt'.sel[k]] IN
                  /\ row.next <= rt'.now
                  /\ rt'.clip_ids # {} => row.clip \in rt'.clip_ids
            /\ rt'.clip_ids = {} => Len(rt'.sel) <= RETRY_LIMIT
       /\ (rt.pc = "loop" /\ rt'.i = rt.i + 1) =>
            LET r == rt.sel[rt.i] IN
            IF rt'.last.ok
            THEN r \notin DOMAIN rt'.table
            ELSE /\ r \in DOMAIN rt'.table
                 /\ rt'.table[r].retry = rt.table[r].retry + 1
                 /\ rt'.table[r].next > rt.now]_vars

\* Errors after which the operation may be invoked again, as stated:
\* transient operational errors, not integrity errors or other exceptions.
Transient(exc) == exc = "OperationalError"

\* ---- C35 (as stated): the wrapped operation is invoked at most
\* max_attempts times; every invocation but the first follows a transient
\* operational error; an integrity error or another exception is raised to
\* the caller at once; and a failure of the last attempt is raised.
C35_RetryOnlyTransientErrors ==
    /\ dbr.calls <= dbr.max_attempts
    /\ \A k \in 1..Len(dbr.errors) :
          ~Transient(dbr.errors[k])
              => /\ k = Len(dbr.errors)
                 /\ dbr.pc = "raised"
                 /\ dbr.raised = dbr.errors[k]
    /\ (Len(dbr.errors) = dbr.max_attempts /\ dbr.max_attempts > 0)
          => dbr.pc = "raised" /\ dbr.raised = dbr.errors[Len(dbr.errors)]

\* ---- C36 (as stated): for each page at most one continuation job is ever
\* enqueued, also when the page's job is delivered again: with one producer
\* job, the stream never holds two continuation jobs for the same page.
C36_OneContinuationPerPage ==
    \A a, b \in 1..Len(batchStream) :
        (a # b /\ batchStream[a].auto_continue
               /\ batchStream[a].before + batchStream[a].after > 0)
            => batchStream[a] # batchStream[b]

\* ---- C37 (as stated): a get_channel_settings call that begins after an
\* invalidation of its key has returned returns settings at least as new as
\* the rows were at that invalidation, whatever misses were in progress
\* then; and two misses on the key that overlap return equal settings.
C37_NoStaleSettingsAfterInvalidation ==
    /\ \A k \in Callers :
          cr.call[k].returned => cr.call[k].value >= cr.call[k].floor
    /\ \A k, x \in Callers :
          (/\ k # x
           /\ cr.call[k].returned /\ cr.call[k].missed /\ cr.call[k].overlap
           /\ cr.call[x].returned /\ cr.call[x].missed /\ cr.call[x].overlap)
              => cr.call[k].value = cr.call[x].value

\* ---- C38 (as stated): once a purge_channel job has completed, the scan
\* jobs that were enqueued or in flight before it create no Message, Clip or
\* ChannelScanStatus row of the channel again, and the status is not running.
C38_NoRowsAfterPurge ==
    pq.purged => scan.status = "none" /\ msgs = {}

\* The cursor a job of the chain carries in its direction (0: none).
CursorOf(j) == IF j.direction = "backward" THEN j.before ELSE j.after

\* Each continuation's cursor is strictly older (backward) or strictly newer
\* (forward) than the cursor of the job that produced it.
CursorsAdvance ==
    \A k \in 2..Len(chn.chain) :
        LET a == chn.chain[k - 1].job
            b == chn.chain[k].job
        IN  CursorOf(a) # 0 =>
                IF b.direction = "backward" THEN CursorOf(b) < CursorOf(a)
                ELSE CursorOf(b) > CursorOf(a)

\* No message id is fetched by two jobs of the chain.
PagesDisjoint ==
    \A a, b \in 1..Len(chn.chain) :
        a # b => SeqToSet(chn.chain[a].page) \cap SeqToSet(chn.chain[b].page) = {}

ChainEnded == chn.started /\ chn.queue = <<>>

LastOfChain == chn.chain[Len(chn.chain)]

\* ---- C39 (as stated): with scanning enabled, the chain reaches status
\* succeeded; the cursors advance strictly; no message id is fetched twice;
\* and the chain ends with a page shorter than limit.
C39_ChainEndsOnShortPage ==
    /\ [](chn.enabled =>
            /\ CursorsAdvance
            /\ PagesDisjoint
            /\ ChainEnded =>
                  Len(LastOfChain.page) < LastOfChain.job.limit)
    /\ (chn.started /\ chn.enabled) ~> (chn.status.status = "succeeded")

\* ---- C39 (amended): with scanning enabled, the chain reaches status
\* succeeded; the cursors advance strictly; no message id is fetched twice;
\* and the chain ends with a page shorter than limit or, under the rescan
\* policy stop, with a page that holds an already stored message.
C39_ChainEndsOnShortPageOrDuplicate ==
    /\ [](chn.enabled =>
            /\ CursorsAdvance
            /\ PagesDisjoint
            /\ ChainEnded =>
                  /\ chn.status.status = "succeeded"
                  /\ \/ Len(LastOfChain.page) < LastOfChain.job.limit
                     \/ /\ LastOfChain.stopped
                        /\ LastOfChain.job.rescan = "stop"
                        /\ SeqToSet(LastOfChain.page) \cap chn.stored # {})
    /\ (chn.started /\ chn.enabled) ~> (ChainEnded /\ chn.status.status = "succeeded")

\* A backward chain of three jobs over a channel of three messages that
\* ended on a short page.
C39_Witness ==
    /\ ChainEnded
    /\ chn.enabled
    /\ chn.status.status = "succeeded"
    /\ Len(chn.chain) = 3
    /\ chn.chain[1].job.direction = "backward"
    /\ Len(chn.chain[2].page) = 1
    /\ chn.chain[3].page = <<>>

\* ---- C40 (as stated): when a batch scan job has ended with status
\* succeeded (or with a continuation), every message with a video attachment
\* that was handed to the batch processor has its Message and Clip rows.
C40_EndedJobHasStoredRows ==
    (pe.path = "batch" /\ pe.pc = "done" /\ pe.status = "succeeded")
        => pe.collected \subseteq pe.stored
====
